---- MODULE Spec2Model ----
(***************************************************************************)
(* A model of the plan pipeline of orchestrator-toolkit:                   *)
(*   runtime/plan_runner.py   apply_plan and its stages                    *)
(*   utils/helper.py          slugify, safe_join, attach_launchers         *)
(*   cloud_agent/cloud_client.py   the plan normalizer                     *)
(*                                                                         *)
(* Strings are sequences of atoms (an atom is one character or one word),  *)
(* a path is a sequence of components, a component is a string.            *)
(***************************************************************************)
EXTENDS Integers, Sequences, FiniteSets, TLC

VARIABLES
    pc,        \* pc[p]: where apply_plan invocation p stands
    plan,      \* plan[p]: the plan dict passed to invocation p
    slug,      \* slug[p]: local `slug`
    cand,      \* cand[p]: local `project_dir`
    ctr,       \* ctr[p]: local `i`
    written,   \* written[p]: local `written`
    stack,     \* stack[p]: local `stack`
    venv,      \* venv[p]: local `venv_dir` set (a flag; the path is cand/.venv)
    hint,      \* hint[p]: local `python_hint`
    runCmd,    \* runCmd[p]: local `run_cmd`
    outcome,   \* outcome[p]: "none", "result" or the kind of exception raised
    trace,     \* trace[p]: what invocation p has done so far, in order
    fsFiles,   \* the filesystem: path -> content of every regular file
    fsDirs,    \* the filesystem: the set of directories
    fsExec,    \* the filesystem: the files with the executable bits set
    raw,            \* _parse_any_plan: argument `raw`, the model's reply
    bad_reply_path, \* _parse_any_plan: argument `bad_reply_path` is given
    parsed,         \* _parse_any_plan: the plan it returned
    normOutcome,    \* _parse_any_plan: "none", "returned" or "raised"
    badReplyFile,   \* the file at bad_reply_path: <<>> or <<its text>>
    _hooks,         \* PluginManager._hooks: event -> list of <<priority, callback>>
    _plugins,       \* PluginManager._plugins: the list of entries
    _loaded_names,  \* PluginManager._loaded_names
    fired,          \* the callbacks the last hook() call ran, in order
    hookResult,     \* what the last hook() call returned
    lastCall,       \* the last PluginManager method called, with its arguments
    getPc,          \* get_plan: where the invocation stands
    user_prompt,    \* get_plan: argument `user_prompt`
    cache_enabled,  \* get_config().llm.cache_enabled
    cached,         \* get_plan: local `cached`, the plan found or none
    getReturned,    \* get_plan: the plan it returned, or none
    attempt,        \* get_plan: local `attempt`
    max_retries,    \* get_plan: argument `max_retries`
    caching_enabled, \* get_plan: local `caching_enabled`
    cacheFile,      \* the cache file of the prompt: the plan in it, or none
    llmCalls,       \* _chat_raw calls of this get_plan invocation, and how each ended
    getRaised,      \* get_plan: the exception it raised, "" when none
    absCmd,         \* _absolutize_main_cmd: argument `main_cmd`
    absOutcome,     \* _absolutize_main_cmd: "none", "returned" or "raised"
    absSame,        \* _absolutize_main_cmd returned main_cmd itself
    absParts        \* _absolutize_main_cmd: the tokens of the string returned

applyVars == <<pc, plan, slug, cand, ctr, written, stack, venv, hint, runCmd,
               outcome, trace, fsFiles, fsDirs, fsExec>>

normVars == <<raw, bad_reply_path, parsed, normOutcome, badReplyFile>>

plugVars == <<_hooks, _plugins, _loaded_names, fired, hookResult, lastCall>>

llmVars == <<getPc, user_prompt, cache_enabled, cached, getReturned, attempt, max_retries,
             caching_enabled, cacheFile, llmCalls, getRaised>>

absVars == <<absCmd, absOutcome, absSame, absParts>>

\* what neither apply_plan nor the normalizer touches
auxVars == <<plugVars, llmVars, absVars>>

vars == <<applyVars, normVars, auxVars>>

----------------------------------------------------------------------------
(* Bounds *)

\* apply_plan invocations: one after the other in Spec, concurrent in SpecConc
NumApplies == 2
\* files per plan and components per filename (specification SpecWrite)
MaxFiles == 2
MaxComps == 2
\* atoms per reply and items per "files" list (specification SpecNorm)
MaxRaw == 3
MaxDocFiles == 2
MaxRetries == 2

Procs == 1..NumApplies

----------------------------------------------------------------------------
(* Strings and paths *)

Last(s) == s[Len(s)]
Front(s) == SubSeq(s, 1, Len(s) - 1)

IsPrefix(a, b) == Len(a) <= Len(b) /\ SubSeq(b, 1, Len(a)) = a
IsProperPrefix(a, b) == Len(a) < Len(b) /\ SubSeq(b, 1, Len(a)) = a

\* a one-atom path component
C(a) == <<a>>

Dot == C(".")
DotDot == C("..")

\* base_dir of every apply_plan call: /base
BaseDir == <<C("base")>>

\* Path.resolve() on a filesystem without symbolic links: "." is dropped,
\* ".." removes the last component (the parent of / is /).
RECURSIVE ResolveFrom(_, _)
ResolveFrom(acc, rest) ==
    IF rest = <<>> THEN acc
    ELSE LET c == Head(rest) IN
         ResolveFrom(IF c = Dot THEN acc
                     ELSE IF c = DotDot
                          THEN (IF acc = <<>> THEN acc ELSE Front(acc))
                          ELSE Append(acc, c),
                     Tail(rest))

Resolve(path) == ResolveFrom(<<>>, path)

\* A filename is [abs |-> it starts with a separator, comps |-> components].
FileName(a, cs) == [abs |-> a, comps |-> cs]

\* the filename used as it is
LStripSep_kept(fn) == fn

\* f["filename"].lstrip("/\\")
LStripSep(fn) == [fn EXCEPT !.abs = FALSE]

\* Path.joinpath: an absolute argument replaces the base.
JoinPath(base, fn) == IF fn.abs THEN fn.comps ELSE base \o fn.comps

\* safe_join(base, rel): the resolved path, and whether it is base or below it.
safe_join_unchecked(base, fn) ==
    [ok |-> TRUE, path |-> Resolve(JoinPath(Resolve(base), fn))]

safe_join(base, fn) ==
    LET b == Resolve(base)
        p == Resolve(JoinPath(b, fn))
    IN  IF ~IsProperPrefix(b, p) /\ p # b
        THEN [ok |-> FALSE, path |-> p]
        ELSE [ok |-> TRUE, path |-> p]

----------------------------------------------------------------------------
(* slugify *)

WhiteSpace == {" "}
SlugPunct == {"_", ".", "-"}
\* atoms of [A-Za-z0-9]
AlNum == {"a", "b", "2", "3", "4", "Generated", "Project", "project"}

RECURSIVE LStripSet(_, _)
LStripSet(s, set) ==
    IF s # <<>> /\ Head(s) \in set THEN LStripSet(Tail(s), set) ELSE s

RECURSIVE RStripSet(_, _)
RStripSet(s, set) ==
    IF s # <<>> /\ Last(s) \in set THEN RStripSet(Front(s), set) ELSE s

StripSet(s, set) == RStripSet(LStripSet(s, set), set)

\* re.sub(r"[^A-Za-z0-9_.\-]+", "_", s) followed by re.sub(r"_+", "_", s)
RECURSIVE SubUnsafe(_, _)
SubUnsafe(acc, rest) ==
    IF rest = <<>> THEN acc
    ELSE LET c == IF Head(rest) \in AlNum \cup SlugPunct THEN Head(rest) ELSE "_"
         IN  SubUnsafe(IF c = "_" /\ acc # <<>> /\ Last(acc) = "_"
                       THEN acc ELSE Append(acc, c),
                       Tail(rest))

slugify(name) ==
    LET s == SubUnsafe(<<>>, StripSet(name, WhiteSpace))
        t == StripSet(s, SlugPunct)
    IN  IF t = <<>> THEN <<"project">> ELSE t

DefaultName == <<"Generated", " ", "Project">>

\* str(i) for the directory suffix
Digit(i) == CASE i = 2 -> "2" [] i = 3 -> "3" [] i = 4 -> "4"
              [] i = 5 -> "5" [] i = 6 -> "6" [] OTHER -> "9"

----------------------------------------------------------------------------
(* The filesystem and _write_files *)

\* A filesystem value: [files |-> path -> content, dirs |-> set of paths,
\*                      exec |-> set of paths].
FsOf(files, dirs, exec) == [files |-> files, dirs |-> dirs, exec |-> exec]

\* Path.is_file() in the place of Path.exists()
Exists_fileOnly(fs, path) == path \in DOMAIN fs.files

\* Path.exists()
Exists(fs, path) == path \in fs.dirs \/ path \in DOMAIN fs.files

ProperPrefixes(path) == {SubSeq(path, 1, n) : n \in 0..(Len(path) - 1)}

\* Path.mkdir(parents=True, exist_ok=True): fails when the path or one of its
\* ancestors is a regular file.
MkdirFails(fs, path) ==
    \E q \in ProperPrefixes(path) \cup {path} : q \in DOMAIN fs.files

MkdirP(fs, path) ==
    [fs EXCEPT !.dirs = @ \cup ProperPrefixes(path) \cup {path}]

\* ensure_executable: chmod +x, every exception swallowed
ensure_executable(fs, path) ==
    IF path \in DOMAIN fs.files THEN [fs EXCEPT !.exec = @ \cup {path}] ELSE fs

\* file names with suffix .sh or .command
ScriptAtoms == {"run.sh", "run.command", "x.sh"}

IsScript(path) == path # <<>> /\ Last(Last(path)) \in ScriptAtoms

\* Path.write_text on an existing directory raises IsADirectoryError.
WriteText(fs, path, code) ==
    [fs EXCEPT !.files = (path :> code) @@ @]

\* One iteration of the loop of _write_files: the state is
\* [fs, written, err]; err is "none", "traversal" (the RuntimeError of
\* safe_join) or "oserror" (mkdir or write_text raised).
WriteEntry(st, project_dir, f) ==
    LET rel == LStripSep(f.filename)
        dest == safe_join(project_dir, rel)
    IN  IF ~dest.ok THEN [st EXCEPT !.err = "traversal"]
        ELSE IF MkdirFails(st.fs, Front(dest.path)) THEN [st EXCEPT !.err = "oserror"]
        ELSE LET fs1 == MkdirP(st.fs, Front(dest.path)) IN
             IF dest.path \in fs1.dirs
             THEN [st EXCEPT !.fs = fs1, !.err = "oserror"]
             ELSE LET fs2 == WriteText(fs1, dest.path, f.code)
                      fs3 == IF IsScript(dest.path)
                             THEN ensure_executable(fs2, dest.path) ELSE fs2
                  IN  [fs |-> fs3, written |-> Append(st.written, dest.path),
                       err |-> "none"]

RECURSIVE WriteLoop(_, _, _)
WriteLoop(st, project_dir, files) ==
    IF files = <<>> \/ st.err # "none" THEN st
    ELSE WriteLoop(WriteEntry(st, project_dir, Head(files)), project_dir, Tail(files))

_write_files(fs, project_dir, files) ==
    WriteLoop([fs |-> fs, written |-> <<>>, err |-> "none"], project_dir, files)

----------------------------------------------------------------------------
(* _detect_stack *)

\* str.lower() on the atoms that have upper-case letters
LowerAtom(a) ==
    CASE a = "Cargo.toml" -> "cargo.toml"
      [] a = "CMakeLists.txt" -> "cmakelists.txt"
      [] a = "Main.java" -> "main.java"
      [] OTHER -> a

LowerName(fn) ==
    [abs |-> fn.abs,
     comps |-> [i \in DOMAIN fn.comps |->
                  [j \in DOMAIN fn.comps[i] |-> LowerAtom(fn.comps[i][j])]]]

\* the filename that is exactly the string x
Named(x) == FileName(FALSE, <<C(x)>>)

\* the extension an atom ends with ("" when it has none of those tested)
Ext(a) ==
    CASE a \in {"main.py", "app.py", "__main__.py", "__init__.py"} -> ".py"
      [] a \in {"index.js", "app.js", "main.js"} -> ".js"
      [] a = "main.go" -> ".go"
      [] a = "main.java" -> ".java"
      [] a = "Main.java" -> ".java"
      [] a = "main.cpp" -> ".cpp"
      [] OTHER -> ""

\* n.endswith(ext) for some ext of exts
EndsWithAny(fn, exts) ==
    fn.comps # <<>> /\ Last(fn.comps) # <<>> /\ Ext(Last(Last(fn.comps))) \in exts

\* the node rule tried before the python rule
_detect_stack_nodeFirst(files) ==
    LET names == {LowerName(files[i].filename) : i \in DOMAIN files} IN
    IF Named("package.json") \in names
       \/ \E n \in names : EndsWithAny(n, {".js", ".ts", ".tsx"})
    THEN "node"
    ELSE IF Named("pyproject.toml") \in names \/ Named("requirements.txt") \in names
       \/ \E n \in names : EndsWithAny(n, {".py"})
    THEN "python"
    ELSE IF Named("go.mod") \in names \/ \E n \in names : EndsWithAny(n, {".go"})
    THEN "go"
    ELSE IF Named("cargo.toml") \in names
    THEN "rust"
    ELSE IF {Named("build.gradle"), Named("settings.gradle"), Named("gradlew"),
             Named("gradlew.bat")} \cap names # {}
    THEN "java-gradle"
    ELSE IF Named("pom.xml") \in names
    THEN "java-maven"
    ELSE IF \E n \in names : EndsWithAny(n, {".java"})
    THEN "java-plain"
    ELSE IF Named("cmakelists.txt") \in names
            \/ \E n \in names : EndsWithAny(n, {".cpp", ".hpp", ".cc", ".cxx"})
    THEN "cpp"
    ELSE "generic"

\* only the last file of the list is looked at
_detect_stack_lastFile(files) ==
    LET names == {LowerName(files[i].filename) : i \in {Len(files)} \cap DOMAIN files} IN
    IF Named("pyproject.toml") \in names \/ Named("requirements.txt") \in names
       \/ \E n \in names : EndsWithAny(n, {".py"})
    THEN "python"
    ELSE IF Named("package.json") \in names
       \/ \E n \in names : EndsWithAny(n, {".js", ".ts", ".tsx"})
    THEN "node"
    ELSE IF Named("go.mod") \in names \/ \E n \in names : EndsWithAny(n, {".go"})
    THEN "go"
    ELSE IF Named("cargo.toml") \in names
    THEN "rust"
    ELSE IF {Named("build.gradle"), Named("settings.gradle"), Named("gradlew"),
             Named("gradlew.bat")} \cap names # {}
    THEN "java-gradle"
    ELSE IF Named("pom.xml") \in names
    THEN "java-maven"
    ELSE IF \E n \in names : EndsWithAny(n, {".java"})
    THEN "java-plain"
    ELSE IF Named("cmakelists.txt") \in names
            \/ \E n \in names : EndsWithAny(n, {".cpp", ".hpp", ".cc", ".cxx"})
    THEN "cpp"
    ELSE "generic"

_detect_stack(files) ==
    LET names == {LowerName(files[i].filename) : i \in DOMAIN files} IN
    IF Named("pyproject.toml") \in names \/ Named("requirements.txt") \in names
       \/ \E n \in names : EndsWithAny(n, {".py"})
    THEN "python"
    ELSE IF Named("package.json") \in names
            \/ \E n \in names : EndsWithAny(n, {".js", ".ts", ".tsx"})
    THEN "node"
    ELSE IF Named("go.mod") \in names \/ \E n \in names : EndsWithAny(n, {".go"})
    THEN "go"
    ELSE IF Named("cargo.toml") \in names
    THEN "rust"
    ELSE IF {Named("build.gradle"), Named("settings.gradle"), Named("gradlew"),
             Named("gradlew.bat")} \cap names # {}
    THEN "java-gradle"
    ELSE IF Named("pom.xml") \in names
    THEN "java-maven"
    ELSE IF \E n \in names : EndsWithAny(n, {".java"})
    THEN "java-plain"
    ELSE IF Named("cmakelists.txt") \in names
            \/ \E n \in names : EndsWithAny(n, {".cpp", ".hpp", ".cc", ".cxx"})
    THEN "cpp"
    ELSE "generic"

CompiledStacks == {"go", "rust", "java-gradle", "java-maven", "java-plain", "cpp"}

----------------------------------------------------------------------------
(* Commands, file contents and the environment of external tools *)

\* A command line is a string: a sequence of atoms, " " the blank.
\* A file content is a sequence of lines, each line a string.
FileText(fs, path) == IF path \in DOMAIN fs.files THEN fs.files[path] ELSE <<>>

\* `atom in txt`
Contains(txt, atom) ==
    \E i \in DOMAIN txt : \E j \in DOMAIN txt[i] : txt[i][j] = atom

\* project_dir / name
Sub(project_dir, name) == Append(project_dir, C(name))

\* What the external tools do in one apply_plan call: each field is one
\* outcome the code reads back.
Envs == [venvOk : BOOLEAN,     \* python -m venv exits 0
         poetryCli : BOOLEAN,  \* which("poetry")
         pdmCli : BOOLEAN,     \* which("pdm")
         reqOk : BOOLEAN,      \* pip install -r requirements.txt exits 0
         toolOk : BOOLEAN,     \* which(cmake), which(g++), go build exits 0
         artifact : BOOLEAN]   \* the build left its artifact on disk

\* the outcomes _install_python reads, and those the builders read
InstallEnvs == {e \in Envs : e.toolOk /\ e.artifact}
BuildEnvs == {e \in Envs : e.poetryCli /\ e.pdmCli /\ e.reqOk}

PyDefault == <<"python", " ", "main.py">>
VenvPy == "$venv/bin/python"

\* One step of a stage: the filesystem, the commands run and the exception.
Step(fs, ev, err) == [fs |-> fs, ev |-> ev, err |-> err]

\* _create_or_reuse_venv: check_call raises CalledProcessError
_create_or_reuse_venv(fs, project_dir, env) ==
    LET venv_dir == Sub(project_dir, ".venv") IN
    IF Exists(fs, venv_dir) THEN Step(fs, <<>>, "none")
    ELSE IF env.venvOk
         THEN Step([fs EXCEPT !.dirs = @ \cup {venv_dir}], <<"python -m venv">>, "none")
         ELSE Step(fs, <<"python -m venv">>, "calledprocess")

\* the str entries are run from the last to the first
RECURSIVE PostCmds_reversed(_)
PostCmds_reversed(post) ==
    IF post = <<>> THEN <<>>
    ELSE IF Head(post).isStr THEN PostCmds_reversed(Tail(post)) \o <<Head(post).cmd>>
    ELSE PostCmds_reversed(Tail(post))

\* the str entries of plan["post_install"], as commands run
RECURSIVE PostCmds(_)
PostCmds(post) ==
    IF post = <<>> THEN <<>>
    ELSE IF Head(post).isStr THEN <<Head(post).cmd>> \o PostCmds(Tail(post))
    ELSE PostCmds(Tail(post))

\* PDM is looked for before Poetry
_install_python_pdmFirst(fs, project_dir, pl, env) ==
    LET v == _create_or_reuse_venv(fs, project_dir, env)
        txt == FileText(v.fs, Sub(project_dir, "pyproject.toml"))
        has_poetry == Contains(txt, "[tool.poetry]")
        has_pdm == Contains(txt, "[tool.pdm]")
        run == IF pl.run # <<>> THEN pl.run ELSE PyDefault
        req == Sub(project_dir, "requirements.txt")
    IN  IF v.err # "none"
        THEN [fs |-> v.fs, ev |-> v.ev, err |-> v.err, venv |-> FALSE, hint |-> <<>>]
        ELSE IF has_pdm /\ env.pdmCli
        THEN [fs |-> v.fs, ev |-> v.ev \o <<"pdm install">>, err |-> "none",
              venv |-> FALSE, hint |-> <<"pdm", " ", "run", " ">> \o run]
        ELSE IF has_poetry /\ env.poetryCli
        THEN [fs |-> v.fs, ev |-> v.ev \o <<"poetry install">>, err |-> "none",
              venv |-> FALSE, hint |-> <<"poetry", " ", "run", " ">> \o run]
        ELSE IF Exists(v.fs, req) /\ ~env.reqOk
        THEN [fs |-> v.fs, ev |-> v.ev \o <<"pip install --upgrade pip", "pip install -r">>,
              err |-> "calledprocess", venv |-> FALSE, hint |-> <<>>]
        ELSE [fs |-> v.fs,
              ev |-> v.ev \o <<"pip install --upgrade pip">>
                     \o (IF Exists(v.fs, req) THEN <<"pip install -r">> ELSE <<>>)
                     \o PostCmds(pl.post_install),
              err |-> "none", venv |-> TRUE, hint |-> <<>>]

\* _install_python: [fs, ev, err, venv (venv_dir is not None), hint]
_install_python(fs, project_dir, pl, env) ==
    LET v == _create_or_reuse_venv(fs, project_dir, env)
        txt == FileText(v.fs, Sub(project_dir, "pyproject.toml"))
        has_poetry == Contains(txt, "[tool.poetry]")
        has_pdm == Contains(txt, "[tool.pdm]")
        run == IF pl.run # <<>> THEN pl.run ELSE PyDefault
        req == Sub(project_dir, "requirements.txt")
    IN  IF v.err # "none"
        THEN [fs |-> v.fs, ev |-> v.ev, err |-> v.err, venv |-> FALSE, hint |-> <<>>]
        ELSE IF has_poetry /\ env.poetryCli
        THEN [fs |-> v.fs, ev |-> v.ev \o <<"poetry install">>, err |-> "none",
              venv |-> FALSE, hint |-> <<"poetry", " ", "run", " ">> \o run]
        ELSE IF has_pdm /\ env.pdmCli
        THEN [fs |-> v.fs, ev |-> v.ev \o <<"pdm install">>, err |-> "none",
              venv |-> FALSE, hint |-> <<"pdm", " ", "run", " ">> \o run]
        ELSE IF Exists(v.fs, req) /\ ~env.reqOk
        THEN [fs |-> v.fs, ev |-> v.ev \o <<"pip install --upgrade pip", "pip install -r">>,
              err |-> "calledprocess", venv |-> FALSE, hint |-> <<>>]
        ELSE [fs |-> v.fs,
              ev |-> v.ev \o <<"pip install --upgrade pip">>
                     \o (IF Exists(v.fs, req) THEN <<"pip install -r">> ELSE <<>>)
                     \o PostCmds(pl.post_install),
              err |-> "none", venv |-> TRUE, hint |-> <<>>]

\* _install_node: the package manager by lock file, then post_install
\* (the vite plugin installs are further _run calls that change nothing read
\* here and are left out)
_install_node(fs, project_dir, pl, env) ==
    LET pm == IF Exists(fs, Sub(project_dir, "yarn.lock")) /\ env.toolOk
              THEN "yarn install"
              ELSE IF Exists(fs, Sub(project_dir, "pnpm-lock.yaml")) /\ env.toolOk
              THEN "pnpm install"
              ELSE IF Exists(fs, Sub(project_dir, "package-lock.json"))
              THEN "npm ci" ELSE "npm install"
    IN  Step(fs, <<pm>> \o PostCmds(pl.post_install), "none")

InstallCmds == {"python -m venv", "poetry install", "pdm install",
                "pip install --upgrade pip", "pip install -r",
                "yarn install", "pnpm install", "npm ci", "npm install"}

----------------------------------------------------------------------------
(* The builders and _final_run_cmd *)

\* One builder's outcome: cmd = <<>> is None.
Built(fs, ev, err, cmd) == [fs |-> fs, ev |-> ev, err |-> err, cmd |-> cmd]

\* Path.mkdir(exist_ok=True): FileExistsError when the path is a regular file
MkdirExistOk(fs, path) == [fs EXCEPT !.dirs = @ \cup {path}]

IsFile(fs, path) == path \in DOMAIN fs.files

\* the regular files below project_dir whose name ends with ext
FilesWithExt(fs, project_dir, ext) ==
    {q \in DOMAIN fs.files : IsProperPrefix(project_dir, q) /\ Ext(Last(Last(q))) = ext}

_build_go(fs, project_dir, env) ==
    IF Exists(fs, Sub(project_dir, "go.mod"))
    THEN IF IsFile(fs, Sub(project_dir, "bin"))
         THEN Built(fs, <<>>, "oserror", <<>>)
         ELSE Built(MkdirExistOk(fs, Sub(project_dir, "bin")),
                    <<"go mod tidy", "go build">>, "none",
                    IF env.toolOk /\ env.artifact THEN <<"$bin/app">>
                    ELSE <<"go", " ", "run", " ", ".">>)
    ELSE Built(fs, <<>>, "none", <<"go", " ", "run", " ", ".">>)

_build_rust(fs, project_dir, env) ==
    Built(fs, <<"cargo build --release">>, "none",
          IF env.artifact THEN <<"$target/release/app">>
          ELSE <<"cargo", " ", "run", " ", "--release">>)

_build_java_gradle(fs, project_dir, env) ==
    Built(IF Exists(fs, Sub(project_dir, "gradlew"))
          THEN ensure_executable(fs, Sub(project_dir, "gradlew")) ELSE fs,
          IF Exists(fs, Sub(project_dir, "gradlew"))
          THEN <<"./gradlew build -x test">> ELSE <<"gradle build -x test">>,
          "none",
          IF env.artifact THEN <<"java", " ", "-jar", " ", "$build/libs/app.jar">>
          ELSE <<>>)

_build_java_maven(fs, project_dir, env) ==
    Built(fs, <<"mvn -q -DskipTests package">>, "none",
          IF env.artifact THEN <<"java", " ", "-jar", " ", "$target/app.jar">>
          ELSE <<>>)

_build_java_plain(fs, project_dir, env) ==
    LET java_files == FilesWithExt(fs, project_dir, ".java")
        mains == {q \in java_files : Contains(fs.files[q], "public static void main")}
    IN  IF java_files = {} THEN Built(fs, <<>>, "none", <<>>)
        ELSE IF IsFile(fs, Sub(project_dir, "bin"))
        THEN Built(fs, <<>>, "oserror", <<>>)
        ELSE Built(MkdirExistOk(fs, Sub(project_dir, "bin")), <<"javac">>, "none",
                   IF mains # {}
                   THEN <<"java", " ", "-cp", " ", "$bin", " ", "Main">>
                   ELSE <<>>)

_build_cpp(fs, project_dir, env) ==
    LET cmake == Exists(fs, Sub(project_dir, "CMakeLists.txt")) /\ env.toolOk
        cpp_files == FilesWithExt(fs, project_dir, ".cpp")
    IN  IF cmake /\ IsFile(fs, Sub(project_dir, "build"))
        THEN Built(fs, <<>>, "oserror", <<>>)
        ELSE LET fs1 == IF cmake THEN MkdirExistOk(fs, Sub(project_dir, "build")) ELSE fs
                 ev1 == IF cmake
                        THEN <<"cmake ..">> \o (IF env.artifact THEN <<"cmake --build">> ELSE <<>>)
                        ELSE <<>>
             IN  IF cmake /\ env.artifact
                 THEN Built(fs1, ev1, "none", <<"$build/app">>)
                 ELSE IF cpp_files # {} /\ env.toolOk
                 THEN IF IsFile(fs1, Sub(project_dir, "bin"))
                      THEN Built(fs1, ev1, "oserror", <<>>)
                      ELSE Built(MkdirExistOk(fs1, Sub(project_dir, "bin")),
                                 Append(ev1, "g++"), "none",
                                 IF env.artifact THEN <<"$bin/app">> ELSE <<>>)
                 ELSE Built(fs1, ev1, "none", <<>>)

BuildCmds == {"go mod tidy", "go build", "cargo build --release",
              "./gradlew build -x test", "gradle build -x test",
              "mvn -q -DskipTests package", "javac", "cmake ..", "cmake --build",
              "g++"}

\* str.strip(), str.split() and " ".join(parts); every word is one atom
Strip(s) == StripSet(s, WhiteSpace)
Split(s) == SelectSeq(s, LAMBDA a : a \notin WhiteSpace)

RECURSIVE Join(_)
Join(parts) ==
    IF parts = <<>> THEN <<>>
    ELSE IF Len(parts) = 1 THEN parts
    ELSE <<Head(parts), " ">> \o Join(Tail(parts))

\* no first word counts as an interpreter
StartsWithPython_never(a) == FALSE

\* parts[0].startswith("python")
StartsWithPython(a) == a \in {"python", "python3"}

\* `builder(project_dir) or fallback`: the call of the builder is recorded
\* before the commands it ran
OrElse(builder, b, fallback) ==
    LET called == [b EXCEPT !.ev = <<builder>> \o @] IN
    IF b.cmd = <<>> /\ b.err = "none" THEN [called EXCEPT !.cmd = fallback] ELSE called

Builders == {"_build_go", "_build_rust", "_build_java_gradle", "_build_java_maven",
             "_build_java_plain", "_build_cpp"}

_final_run_cmd(fs, stk, project_dir, plan_run, venv_dir, python_hint, env) ==
    IF plan_run # <<>>
    THEN LET parts == Split(Strip(plan_run)) IN
         IF stk = "python" /\ venv_dir /\ parts # <<>> /\ StartsWithPython(parts[1])
         THEN Built(fs, <<>>, "none", Join(<<VenvPy>> \o Tail(parts)))
         ELSE Built(fs, <<>>, "none", Strip(plan_run))
    ELSE IF stk = "python"
    THEN IF python_hint # <<>> THEN Built(fs, <<>>, "none", python_hint)
         ELSE LET v == IF venv_dir THEN Step(fs, <<>>, "none")
                       ELSE _create_or_reuse_venv(fs, project_dir, env)
                  mains == {q \in DOMAIN v.fs.files :
                              IsProperPrefix(project_dir, q) /\ Last(q) = C("__main__.py")}
              IN  IF v.err # "none" THEN Built(v.fs, v.ev, v.err, <<>>)
                  ELSE IF Exists(v.fs, Sub(project_dir, "main.py"))
                  THEN Built(v.fs, v.ev, "none", <<VenvPy, " ", "main.py">>)
                  ELSE IF Exists(v.fs, Sub(project_dir, "app.py"))
                  THEN Built(v.fs, v.ev, "none", <<VenvPy, " ", "app.py">>)
                  ELSE IF mains # {}
                  THEN Built(v.fs, v.ev, "none",
                             <<VenvPy, " ", "-m", " ">> \o Last(Front(CHOOSE q \in mains : TRUE)))
                  ELSE Built(v.fs, v.ev, "none",
                             <<VenvPy, " ", "-c", " ", "\"print('No entry point; edit run.sh')\"">>)
    ELSE IF stk = "node"
    THEN IF Contains(FileText(fs, Sub(project_dir, "package.json")), "scripts.start")
         THEN Built(fs, <<>>, "none", <<"npm", " ", "start">>)
         ELSE IF Exists(fs, Sub(project_dir, "app.js"))
         THEN Built(fs, <<>>, "none", <<"node", " ", "app.js">>)
         ELSE IF Exists(fs, Sub(project_dir, "main.js"))
         THEN Built(fs, <<>>, "none", <<"node", " ", "main.js">>)
         ELSE IF Exists(fs, Sub(project_dir, "index.js"))
         THEN Built(fs, <<>>, "none", <<"node", " ", "index.js">>)
         ELSE Built(fs, <<>>, "none", <<"node", " ", "-e", " ", "\"console.log('No entry point');\"">>)
    ELSE IF stk = "go"
    THEN OrElse("_build_go", _build_go(fs, project_dir, env), <<"go", " ", "run", " ", ".">>)
    ELSE IF stk = "rust"
    THEN OrElse("_build_rust", _build_rust(fs, project_dir, env), <<"cargo", " ", "run", " ", "--release">>)
    ELSE IF stk = "java-gradle"
    THEN OrElse("_build_java_gradle", _build_java_gradle(fs, project_dir, env), <<"gradle", " ", "run">>)
    ELSE IF stk = "java-maven"
    THEN OrElse("_build_java_maven", _build_java_maven(fs, project_dir, env), <<"mvn", " ", "-q", " ", "exec:java">>)
    ELSE IF stk = "java-plain"
    THEN OrElse("_build_java_plain", _build_java_plain(fs, project_dir, env), <<"echo", " ", "'No main class found'">>)
    ELSE IF stk = "cpp"
    THEN OrElse("_build_cpp", _build_cpp(fs, project_dir, env), <<"echo", " ", "'No executable built'">>)
    ELSE Built(fs, <<>>, "none", <<>>)

----------------------------------------------------------------------------
(* attach_launchers *)

MainGuard == "if __name__ == '__main__':"

\* _detect_main: <<command for run.sh, command for run.bat>>
_detect_main(fs, files_written) ==
    LET py_files == SelectSeq(files_written, LAMBDA q : Ext(Last(Last(q))) = ".py")
        guarded == SelectSeq(py_files, LAMBDA q : Contains(FileText(fs, q), MainGuard))
        pkgs == {Front(files_written[i]) : i \in DOMAIN files_written}
        inits == {d \in pkgs : IsFile(fs, Sub(d, "__init__.py"))}
    IN  IF guarded # <<>>
        THEN <<<<"python3", " ">> \o Last(guarded[1]), <<"python", " ">> \o Last(guarded[1])>>
        ELSE IF py_files # <<>>
        THEN <<<<"python3", " ">> \o Last(py_files[1]), <<"python", " ">> \o Last(py_files[1])>>
        ELSE IF inits # {}
        THEN LET d == CHOOSE d \in inits : TRUE IN
             <<<<"python3", " ", "-m", " ">> \o Last(d), <<"python", " ", "-m", " ">> \o Last(d)>>
        ELSE <<<<"echo", " ", "'No entry point detected'">>,
               <<"echo", " ", "No entry point detected">>>>

ShLauncher(cmd) == <<<<"#!/usr/bin/env bash">>, <<"cd \"$(dirname \"$0\")\"">>, cmd>>
BatLauncher(cmd) == <<<<"@echo off">>, <<"cd /d %~dp0">>, cmd>>
HowTo(cmd) == <<<<"# How to Run (App)">>, cmd>>

\* helper._write: parent.mkdir(parents=True, exist_ok=True), then write_text
WriteFails(fs, path) == MkdirFails(fs, Front(path)) \/ path \in fs.dirs
_write(fs, path, text) == WriteText(MkdirP(fs, Front(path)), path, text)

\* the launcher files in the order attach_launchers writes them
LauncherFiles(main_cmd, win_cmd, is_app) ==
    <<[name |-> "run.sh", text |-> ShLauncher(main_cmd), exec |-> TRUE],
      [name |-> "run.command", text |-> ShLauncher(main_cmd), exec |-> TRUE],
      [name |-> "run.bat", text |-> BatLauncher(win_cmd), exec |-> FALSE]>>
    \o (IF is_app
        THEN <<[name |-> "HOW_TO_RUN.txt", text |-> HowTo(main_cmd), exec |-> FALSE]>>
        ELSE <<>>)

\* every launcher is written, whether or not the file is there
RECURSIVE WriteLaunchers_overwrite(_, _, _)
WriteLaunchers_overwrite(st, project_dir, todo) ==
    IF todo = <<>> \/ st.err # "none" THEN st
    ELSE LET l == Head(todo)
             path == Sub(project_dir, l.name)
         IN  IF WriteFails(st.fs, path) THEN [st EXCEPT !.err = "oserror"]
             ELSE LET fs1 == _write(st.fs, path, l.text)
                      fs2 == IF l.exec THEN ensure_executable(fs1, path) ELSE fs1
                  IN  WriteLaunchers_overwrite([st EXCEPT !.fs = fs2], project_dir,
                                               Tail(todo))

\* `if not os.path.isfile(path): _write(path, text)` for each launcher
RECURSIVE WriteLaunchers(_, _, _)
WriteLaunchers(st, project_dir, todo) ==
    IF todo = <<>> \/ st.err # "none" THEN st
    ELSE LET l == Head(todo)
             path == Sub(project_dir, l.name)
         IN  IF IsFile(st.fs, path) THEN WriteLaunchers(st, project_dir, Tail(todo))
             ELSE IF WriteFails(st.fs, path) THEN [st EXCEPT !.err = "oserror"]
             ELSE LET fs1 == _write(st.fs, path, l.text)
                      fs2 == IF l.exec THEN ensure_executable(fs1, path) ELSE fs1
                  IN  WriteLaunchers([st EXCEPT !.fs = fs2], project_dir, Tail(todo))

attach_launchers(fs, project_dir, files_written, direct_cmd, is_app) ==
    LET dm == _detect_main(fs, files_written)
        effective_main_cmd == IF direct_cmd # <<>> THEN Strip(direct_cmd) ELSE dm[1]
        effective_win_cmd == dm[2]
    IN  WriteLaunchers(Step(fs, <<>>, "none"), project_dir,
                       LauncherFiles(effective_main_cmd, effective_win_cmd, is_app))

\* _init_git_repo: git init, .gitignore, git add, git commit; every exception
\* is swallowed
_init_git_repo(fs, project_dir) ==
    LET path == Sub(project_dir, ".gitignore") IN
    IF path \in fs.dirs \/ MkdirFails(fs, project_dir) \/ project_dir \notin fs.dirs
    THEN fs
    ELSE WriteText(fs, path, <<<<"# Byte-compiled / optimized / DLL files">>>>)

----------------------------------------------------------------------------
(* apply_plan, one action per stage *)

Fs == FsOf(fsFiles, fsDirs, fsExec)

SetFs(fs) == /\ fsFiles' = fs.files
             /\ fsDirs' = fs.dirs
             /\ fsExec' = fs.exec

\* base_dir / name
InBase(name) == Append(BaseDir, name)

\* the exception leaves apply_plan
Raise_swallowed(p, kind, events) ==
    /\ pc' = [pc EXCEPT ![p] = "written"]
    /\ outcome' = [outcome EXCEPT ![p] = kind]
    /\ trace' = [trace EXCEPT ![p] = @ \o events]

Raise(p, kind, events) ==
    /\ pc' = [pc EXCEPT ![p] = "failed"]
    /\ outcome' = [outcome EXCEPT ![p] = kind]
    /\ trace' = [trace EXCEPT ![p] = @ \o events]

\* name = plan.get("name") or "Generated Project"; slug = slugify(name) or
\* "project"; project_dir = base_dir / slug; i = 2
Enter(p, pl) ==
    LET name == IF pl.name # <<>> THEN pl.name ELSE DefaultName
        sl == slugify(name)
    IN  /\ pc' = [pc EXCEPT ![p] = "check"]
        /\ plan' = [plan EXCEPT ![p] = pl]
        /\ slug' = [slug EXCEPT ![p] = sl]
        /\ cand' = [cand EXCEPT ![p] = InBase(sl)]
        /\ ctr' = [ctr EXCEPT ![p] = 2]
        /\ written' = [written EXCEPT ![p] = <<>>]
        /\ stack' = [stack EXCEPT ![p] = ""]
        /\ venv' = [venv EXCEPT ![p] = FALSE]
        /\ hint' = [hint EXCEPT ![p] = <<>>]
        /\ runCmd' = [runCmd EXCEPT ![p] = <<>>]
        /\ outcome' = [outcome EXCEPT ![p] = "none"]
        /\ trace' = [trace EXCEPT ![p] = <<"NEW">>]
        /\ UNCHANGED <<fsFiles, fsDirs, fsExec, normVars, auxVars>>

\* while project_dir.exists(): project_dir = base_dir / f"{slug}-{i}"; i += 1
CheckExists(p) ==
    /\ pc[p] = "check"
    /\ IF Exists(Fs, cand[p])
       THEN /\ cand' = [cand EXCEPT ![p] = InBase(slug[p] \o <<"-", Digit(ctr[p])>>)]
            /\ ctr' = [ctr EXCEPT ![p] = @ + 1]
            /\ pc' = pc
       ELSE /\ pc' = [pc EXCEPT ![p] = "mkdir"]
            /\ UNCHANGED <<cand, ctr>>
    /\ UNCHANGED <<normVars, auxVars, plan, slug, written, stack, venv, hint, runCmd, outcome, trace,
                   fsFiles, fsDirs, fsExec>>

\* project_dir.mkdir(parents=True, exist_ok=True)
Mkdir(p) ==
    /\ pc[p] = "mkdir"
    /\ IF MkdirFails(Fs, cand[p])
       THEN /\ Raise(p, "oserror", <<>>)
            /\ UNCHANGED <<fsFiles, fsDirs, fsExec>>
       ELSE /\ SetFs(MkdirP(Fs, cand[p]))
            /\ pc' = [pc EXCEPT ![p] = "allocated"]
            /\ trace' = [trace EXCEPT ![p] = Append(@, "DIRECTORY_ALLOCATED")]
            /\ outcome' = outcome
    /\ UNCHANGED <<normVars, auxVars, plan, slug, cand, ctr, written, stack, venv, hint, runCmd>>

\* written = _write_files(project_dir, files)
WriteFiles(p) ==
    /\ pc[p] = "allocated"
    /\ LET r == _write_files(Fs, cand[p], plan[p].files) IN
       /\ SetFs(r.fs)
       /\ written' = [written EXCEPT ![p] = r.written]
       /\ IF r.err # "none"
          THEN Raise(p, r.err, <<>>)
          ELSE /\ pc' = [pc EXCEPT ![p] = "written"]
               /\ trace' = [trace EXCEPT ![p] = Append(@, "FILES_WRITTEN")]
               /\ outcome' = outcome
    /\ UNCHANGED <<normVars, auxVars, plan, slug, cand, ctr, stack, venv, hint, runCmd>>

\* _init_git_repo(project_dir); stack = _detect_stack(files)
DetectStack(p) ==
    /\ pc[p] = "written"
    /\ SetFs(_init_git_repo(Fs, cand[p]))
    /\ stack' = [stack EXCEPT ![p] = _detect_stack(plan[p].files)]
    /\ pc' = [pc EXCEPT ![p] = "detected"]
    /\ trace' = [trace EXCEPT ![p] = Append(@, "STACK_DETECTED")]
    /\ UNCHANGED <<normVars, auxVars, plan, slug, cand, ctr, written, venv, hint, runCmd, outcome>>

\* if stack == "python": venv_dir, python_hint = _install_python(project_dir, plan)
InstallPython(p) ==
    /\ pc[p] = "detected"
    /\ stack[p] = "python"
    /\ \E env \in InstallEnvs :
         LET r == _install_python(Fs, cand[p], plan[p], env) IN
         /\ SetFs(r.fs)
         /\ venv' = [venv EXCEPT ![p] = r.venv]
         /\ hint' = [hint EXCEPT ![p] = r.hint]
         /\ IF r.err # "none"
            THEN Raise(p, r.err, r.ev)
            ELSE /\ pc' = [pc EXCEPT ![p] = "installed"]
                 /\ trace' = [trace EXCEPT ![p] = Append(@ \o r.ev, "INSTALLED")]
                 /\ outcome' = outcome
    /\ UNCHANGED <<normVars, auxVars, plan, slug, cand, ctr, written, stack, runCmd>>

\* elif stack == "node": _install_node(project_dir, plan)
InstallNode(p) ==
    /\ pc[p] = "detected"
    /\ stack[p] = "node"
    /\ \E env \in BuildEnvs :
         LET r == _install_node(Fs, cand[p], plan[p], env) IN
         /\ SetFs(r.fs)
         /\ pc' = [pc EXCEPT ![p] = "installed"]
         /\ trace' = [trace EXCEPT ![p] = Append(@ \o r.ev, "INSTALLED")]
    /\ UNCHANGED <<normVars, auxVars, plan, slug, cand, ctr, written, stack, venv, hint, runCmd,
                   outcome>>

\* else: for cmd in plan.get("post_install") or []: _run(cmd, project_dir)
PostInstall(p) ==
    /\ pc[p] = "detected"
    /\ stack[p] \notin {"python", "node"}
    /\ pc' = [pc EXCEPT ![p] = "installed"]
    /\ trace' = [trace EXCEPT ![p] = Append(@ \o PostCmds(plan[p].post_install), "INSTALLED")]
    /\ UNCHANGED <<normVars, auxVars, plan, slug, cand, ctr, written, stack, venv, hint, runCmd,
                   outcome, fsFiles, fsDirs, fsExec>>

\* run_cmd = _final_run_cmd(stack, project_dir, plan.get("run",""), venv_dir,
\*                          python_hint)
ResolveRunCmd(p) ==
    /\ pc[p] = "installed"
    /\ \E env \in BuildEnvs :
         LET r == _final_run_cmd(Fs, stack[p], cand[p], plan[p].run, venv[p], hint[p], env)
         IN  /\ SetFs(r.fs)
             /\ runCmd' = [runCmd EXCEPT ![p] = r.cmd]
             /\ IF r.err # "none"
                THEN Raise(p, r.err, <<"_final_run_cmd">> \o r.ev)
                ELSE /\ pc' = [pc EXCEPT ![p] = "resolved"]
                     /\ trace' = [trace EXCEPT ![p] =
                                    Append(@ \o <<"_final_run_cmd">> \o r.ev, "RUN_CMD_RESOLVED")]
                     /\ outcome' = outcome
    /\ UNCHANGED <<normVars, auxVars, plan, slug, cand, ctr, written, stack, venv, hint>>

\* attach_launchers(str(project_dir), written, direct_cmd=run_cmd, is_app=is_app)
AttachLaunchers(p) ==
    /\ pc[p] = "resolved"
    /\ LET r == attach_launchers(Fs, cand[p], written[p], runCmd[p], plan[p].is_app) IN
       /\ SetFs(r.fs)
       /\ IF r.err # "none"
          THEN Raise(p, r.err, <<>>)
          ELSE /\ pc' = [pc EXCEPT ![p] = "launched"]
               /\ trace' = [trace EXCEPT ![p] = Append(@, "LAUNCHERS_WRITTEN")]
               /\ outcome' = outcome
    /\ UNCHANGED <<normVars, auxVars, plan, slug, cand, ctr, written, stack, venv, hint, runCmd>>

\* if _check_exists("git"): _init_git_repo(project_dir); return result
Return(p) ==
    /\ pc[p] = "launched"
    /\ \E git \in BOOLEAN : SetFs(IF git THEN _init_git_repo(Fs, cand[p]) ELSE Fs)
    /\ pc' = [pc EXCEPT ![p] = "done"]
    /\ outcome' = [outcome EXCEPT ![p] = "result"]
    /\ trace' = [trace EXCEPT ![p] = Append(@, "DONE")]
    /\ UNCHANGED <<normVars, auxVars, plan, slug, cand, ctr, written, stack, venv, hint, runCmd>>

\* the stages of one apply_plan call after its entry
Stages(p) ==
    \/ CheckExists(p)
    \/ Mkdir(p)
    \/ WriteFiles(p)
    \/ DetectStack(p)
    \/ InstallPython(p)
    \/ InstallNode(p)
    \/ PostInstall(p)
    \/ ResolveRunCmd(p)
    \/ AttachLaunchers(p)
    \/ Return(p)

----------------------------------------------------------------------------
(* The plan normalizer: JSON texts and json.loads *)

\* The atoms with a meaning in a JSON text; every other atom is an ordinary
\* character, legal only inside a string literal.  No atom is a backslash.
Quote == "\""
\* the atom of three backquotes
Fence == "<fence>"
\* \s of the regular expressions and the whitespace of JSON
Blank == {" ", "\n"}
\* characters below 0x20, which json.loads rejects inside a string literal
Control == {"\n"}
Digits == {"1"}
JsonTags == {"json", "JSON"}

\* a decoded JSON value: t is its Python type, s the text of a str or an
\* int, items the members of a list or the values of a dict, keys the keys
\* of a dict (keys[i] maps to items[i])
V(t, s, items, keys) == [t |-> t, s |-> s, items |-> items, keys |-> keys]
StrV(s) == V("str", s, <<>>, <<>>)
NumV(s) == V("int", s, <<>>, <<>>)
NullV == V("NoneType", <<>>, <<>>, <<>>)
ListV(items) == V("list", <<>>, items, <<>>)
DictV(keys, items) == V("dict", <<>>, items, keys)

\* `key in d` and `d[key]` (the dict holds the key)
Has(d, key) == \E i \in DOMAIN d.keys : d.keys[i] = key
Get(d, key) == d.items[CHOOSE i \in DOMAIN d.keys : d.keys[i] = key]

\* d[key] = v: a key already present keeps its place and takes the value
DictPut(d, key, v) ==
    IF Has(d, key)
    THEN DictV(d.keys, [i \in DOMAIN d.items |->
                           IF d.keys[i] = key THEN v ELSE d.items[i]])
    ELSE DictV(Append(d.keys, key), Append(d.items, v))

\* the first index at or after i that holds no whitespace
RECURSIVE SkipBlank(_, _)
SkipBlank(t, i) ==
    IF i <= Len(t) /\ t[i] \in Blank THEN SkipBlank(t, i + 1) ELSE i

At(t, i, atoms) == i >= 1 /\ i <= Len(t) /\ t[i] \in atoms

\* the first index at or after i that holds one of atoms, 0 when none does
FirstOf(t, i, atoms) ==
    LET S == {j \in i..Len(t) : t[j] \in atoms} IN
    IF S = {} THEN 0 ELSE CHOOSE j \in S : \A k \in S : j <= k

LastOf(t, atoms) ==
    LET S == {j \in 1..Len(t) : t[j] \in atoms} IN
    IF S = {} THEN 0 ELSE CHOOSE j \in S : \A k \in S : j >= k

\* a decoding step: it failed, or value v ends just before index pos
Failed == [ok |-> FALSE, v |-> NullV, pos |-> 0]
Decoded(v, pos) == [ok |-> TRUE, v |-> v, pos |-> pos]

\* a string literal whose opening quote is t[i]
ParseString(t, i) ==
    LET j == FirstOf(t, i + 1, {Quote}) IN
    IF j = 0 \/ \E k \in (i + 1)..(j - 1) : t[k] \in Control THEN Failed
    ELSE Decoded(StrV(SubSeq(t, i + 1, j - 1)), j + 1)

\* the run of digits that starts at t[i]
RECURSIVE DigitsEnd(_, _)
DigitsEnd(t, i) == IF At(t, i + 1, Digits) THEN DigitsEnd(t, i + 1) ELSE i

RECURSIVE ParseValue(_, _), ParseMembers(_, _, _), ParseElements(_, _, _)

\* the JSON value that starts at t[i]
ParseValue(t, i) ==
    IF i > Len(t) THEN Failed
    ELSE IF t[i] = Quote THEN ParseString(t, i)
    ELSE IF t[i] = "{"
         THEN LET w == SkipBlank(t, i + 1) IN
              IF At(t, w, {"}"}) THEN Decoded(DictV(<<>>, <<>>), w + 1)
              ELSE ParseMembers(t, w, DictV(<<>>, <<>>))
    ELSE IF t[i] = "["
         THEN LET w == SkipBlank(t, i + 1) IN
              IF At(t, w, {"]"}) THEN Decoded(ListV(<<>>), w + 1)
              ELSE ParseElements(t, w, <<>>)
    ELSE IF t[i] \in Digits
         THEN Decoded(NumV(SubSeq(t, i, DigitsEnd(t, i))), DigitsEnd(t, i) + 1)
    ELSE IF t[i] = "null" THEN Decoded(NullV, i + 1)
    ELSE Failed

\* the members of an object from the key at t[i] on, d those before it
ParseMembers(t, i, d) ==
    IF ~At(t, i, {Quote}) THEN Failed
    ELSE LET k == ParseString(t, i) IN
         IF ~k.ok THEN Failed
         ELSE LET c == SkipBlank(t, k.pos) IN
              IF ~At(t, c, {":"}) THEN Failed
              ELSE LET r == ParseValue(t, SkipBlank(t, c + 1)) IN
                   IF ~r.ok THEN Failed
                   ELSE LET e == SkipBlank(t, r.pos)
                            d2 == DictPut(d, k.v.s, r.v)
                        IN  IF At(t, e, {"}"}) THEN Decoded(d2, e + 1)
                            ELSE IF At(t, e, {","})
                                 THEN ParseMembers(t, SkipBlank(t, e + 1), d2)
                            ELSE Failed

\* the elements of an array from the value at t[i] on, items those before it
ParseElements(t, i, items) ==
    LET r == ParseValue(t, i) IN
    IF ~r.ok THEN Failed
    ELSE LET e == SkipBlank(t, r.pos)
             items2 == Append(items, r.v)
         IN  IF At(t, e, {"]"}) THEN Decoded(ListV(items2), e + 1)
             ELSE IF At(t, e, {","})
                  THEN ParseElements(t, SkipBlank(t, e + 1), items2)
             ELSE Failed

\* json.loads(t): one value, whitespace around it and nothing else, or
\* JSONDecodeError
loads(t) ==
    LET r == ParseValue(t, SkipBlank(t, 1)) IN
    IF r.ok /\ SkipBlank(t, r.pos) = Len(t) + 1 THEN r ELSE Failed

\* re.sub(r",(\s*[}\]])", r"\1", txt): every comma followed by optional
\* whitespace and a closing brace or bracket is dropped, wherever it stands
StripCommas(txt) ==
    LET kept == SelectSeq([i \in DOMAIN txt |-> i],
                          LAMBDA i : ~(/\ txt[i] = ","
                                       /\ At(txt, SkipBlank(txt, i + 1), {"}", "]"})))
    IN  [n \in DOMAIN kept |-> txt[kept[n]]]

\* tolerate trailing commas
_json_load_lenient(txt) == loads(StripCommas(txt))

----------------------------------------------------------------------------
(* The plan normalizer: candidates, _normalize_plan, _parse_any_plan *)

\* sep.join(parts)
RECURSIVE Cat(_, _)
Cat(parts, sep) ==
    IF parts = <<>> THEN <<>>
    ELSE IF Len(parts) = 1 THEN parts[1]
    ELSE parts[1] \o sep \o Cat(Tail(parts), sep)

\* repr(v) of a decoded value (no string holds a quote or a backslash)
RECURSIVE PyRepr(_)
PyRepr(v) ==
    CASE v.t = "str" -> <<"'">> \o v.s \o <<"'">>
      [] v.t = "int" -> v.s
      [] v.t = "NoneType" -> <<"None">>
      [] v.t = "list" ->
            <<"[">> \o Cat([i \in DOMAIN v.items |-> PyRepr(v.items[i])], <<",", " ">>)
                    \o <<"]">>
      [] v.t = "dict" ->
            <<"{">> \o Cat([i \in DOMAIN v.items |->
                              <<"'">> \o v.keys[i] \o <<"'", ":", " ">>
                                      \o PyRepr(v.items[i])], <<",", " ">>)
                    \o <<"}">>

\* str(v)
PyStr(v) == IF v.t = "str" THEN v.s ELSE PyRepr(v)

\* a line break of json.dumps(..., indent=2) at nesting depth level
Indent(level) == <<"\n">> \o [i \in 1..(2 * level) |-> " "]

\* json.dumps(v, indent=2)
RECURSIVE Dumps(_, _)
Dumps(v, level) ==
    CASE v.t = "str" -> <<Quote>> \o v.s \o <<Quote>>
      [] v.t = "int" -> v.s
      [] v.t = "NoneType" -> <<"null">>
      [] v.t = "list" ->
            IF v.items = <<>> THEN <<"[", "]">>
            ELSE <<"[">> \o Indent(level + 1)
                 \o Cat([i \in DOMAIN v.items |-> Dumps(v.items[i], level + 1)],
                        <<",">> \o Indent(level + 1))
                 \o Indent(level) \o <<"]">>
      [] v.t = "dict" ->
            IF v.items = <<>> THEN <<"{", "}">>
            ELSE <<"{">> \o Indent(level + 1)
                 \o Cat([i \in DOMAIN v.items |->
                           <<Quote>> \o v.keys[i] \o <<Quote, ":", " ">>
                                     \o Dumps(v.items[i], level + 1)],
                        <<",">> \o Indent(level + 1))
                 \o Indent(level) \o <<"}">>

\* _JSON_FENCE.match at index i: ```(?:json)?\s*(\{.*?\}|\[.*?\])\s*```
\* with DOTALL and IGNORECASE; lo..hi is group 1, end the index after it all
_JSON_FENCE(t, i) ==
    LET j == IF At(t, i + 1, JsonTags) THEN i + 2 ELSE i + 1
        lo == SkipBlank(t, j)
        close == IF At(t, lo, {"{"}) THEN "}" ELSE "]"
        E == {e \in (lo + 1)..Len(t) :
                 t[e] = close /\ At(t, SkipBlank(t, e + 1), {Fence})}
        hi == CHOOSE e \in E : \A f \in E : e <= f
    IN  IF At(t, i, {Fence}) /\ At(t, lo, {"{", "["}) /\ E # {}
        THEN [ok |-> TRUE, group |-> SubSeq(t, lo, hi), end |-> SkipBlank(t, hi + 1) + 1]
        ELSE [ok |-> FALSE, group |-> <<>>, end |-> 0]

\* [m.group(1) for m in _JSON_FENCE.finditer(raw)] from index i on
RECURSIVE FenceGroups(_, _)
FenceGroups(t, i) ==
    LET S == {j \in i..Len(t) : _JSON_FENCE(t, j).ok} IN
    IF S = {} THEN <<>>
    ELSE LET m == _JSON_FENCE(t, CHOOSE j \in S : \A k \in S : j <= k) IN
         <<m.group>> \o FenceGroups(t, m.end)

\* _FIRST_OBJ.search and _FIRST_ARRAY.search: from the first opening atom to
\* the last closing one (.* is greedy), no match when none closes after it
FirstSpan(t, open, close) ==
    LET lo == FirstOf(t, 1, {open})
        hi == LastOf(t, {close})
    IN  IF lo # 0 /\ hi > lo THEN <<SubSeq(t, lo, hi)>> ELSE <<>>

_FIRST_OBJ(t) == FirstSpan(t, "{", "}")
_FIRST_ARRAY(t) == FirstSpan(t, "[", "]")

\* the [...] span is taken before the {...} span
_extract_json_candidates_arrayFirst(t) ==
    IF FenceGroups(t, 1) # <<>> THEN FenceGroups(t, 1)
    ELSE _FIRST_ARRAY(t) \o _FIRST_OBJ(t)

_extract_json_candidates(t) ==
    IF FenceGroups(t, 1) # <<>> THEN FenceGroups(t, 1)
    ELSE _FIRST_OBJ(t) \o _FIRST_ARRAY(t)

\* a plan dict: the keys the pipeline reads
Plan(name, files, post_install, run) ==
    [name |-> name, files |-> files, post_install |-> post_install, run |-> run]

Key(a) == <<a>>

\* names[i] ends with "/__main__.py"
IsMainModule(n) ==
    Len(n) >= 2 /\ n[Len(n)] = "__main__.py" /\ n[Len(n) - 1] = "/"

_guess_run(files) ==
    LET names == {files[i].filename : i \in DOMAIN files}
        pkgs == {SubSeq(n, 1, FirstOf(n, 1, {"/"}) - 1) : n \in {m \in names : IsMainModule(m)}}
    IN  IF <<"run.sh">> \in names THEN <<".", "/", "run.sh">>
        ELSE IF <<"run.command">> \in names THEN <<".", "/", "run.command">>
        ELSE IF <<"run.bat">> \in names THEN <<"run.bat">>
        ELSE IF pkgs # {}
             THEN <<"python", " ", "-m", " ">>
                  \o (CHOOSE p \in pkgs : \A q \in pkgs : Len(p) <= Len(q))
        ELSE IF <<"main.py">> \in names THEN <<"python", " ", "main.py">>
        ELSE IF <<"app.py">> \in names THEN <<"python", " ", "app.py">>
        ELSE IF <<"package.json">> \in names THEN <<"npm", " ", "start">>
        ELSE <<>>

\* isinstance(it, dict) and "filename" in it and "code" in it
IsFileItem(it) ==
    it.t = "dict" /\ Has(it, Key("filename")) /\ Has(it, Key("code"))

_wrap_array_as_plan(arr) ==
    LET its == SelectSeq(arr.items, IsFileItem)
        files == [i \in DOMAIN its |->
                    [filename |-> PyStr(Get(its[i], Key("filename"))),
                     code |-> PyStr(Get(its[i], Key("code")))]]
    IN  IF files = <<>>
        THEN Plan(StrV(DefaultName),
                  <<[filename |-> <<"main.txt">>, code |-> Dumps(arr, 0)]>>,
                  ListV(<<>>), StrV(<<>>))
        ELSE Plan(StrV(DefaultName), files, ListV(<<>>), StrV(_guess_run(files)))

\* atoms that end with one of the extensions _normalize_plan accepts in a key
FileAtoms == {"main.py", "app.py", "__main__.py", "run.sh", "run.bat",
              "run.command", "package.json", "main.txt", "README.md",
              "CMakeLists.txt", "build.gradle", "pom.xml"}

_normalize_plan(root) ==
    IF root.t = "dict"
    THEN LET given == Has(root, Key("files")) /\ Get(root, Key("files")).t = "list"
             keyed == SelectSeq([i \in DOMAIN root.keys |->
                                    DictV(<<Key("filename"), Key("code")>>,
                                          <<StrV(root.keys[i]), root.items[i]>>)],
                                LAMBDA it : /\ it.items[2].t = "str"
                                            /\ it.items[1].s # <<>>
                                            /\ Last(it.items[1].s) \in FileAtoms)
             files == IF given THEN Get(root, Key("files")).items ELSE keyed
             its == SelectSeq(files, IsFileItem)
             cleaned == [i \in DOMAIN its |->
                           [filename |-> LStripSet(PyStr(Get(its[i], Key("filename"))),
                                                   {"/", "\\"}),
                            code |-> PyStr(Get(its[i], Key("code")))]]
             post == IF Has(root, Key("post_install"))
                     THEN Get(root, Key("post_install")) ELSE ListV(<<>>)
         IN  Plan(IF Has(root, Key("name")) THEN Get(root, Key("name"))
                  ELSE StrV(DefaultName),
                  cleaned,
                  IF post.t = "list" THEN post ELSE ListV(<<StrV(PyStr(post))>>),
                  IF Has(root, Key("run")) THEN Get(root, Key("run"))
                  ELSE StrV(_guess_run(cleaned)))
    ELSE IF root.t = "list" THEN _wrap_array_as_plan(root)
    ELSE IF root.t = "str"
         THEN Plan(StrV(<<"Generated", " ", "Script">>),
                   <<[filename |-> <<"main.py">>, code |-> root.s]>>,
                   ListV(<<>>), StrV(<<"python", " ", "main.py">>))
    ELSE Plan(StrV(DefaultName),
              <<[filename |-> <<"main.txt">>, code |-> PyRepr(root)]>>,
              ListV(<<>>), StrV(<<>>))

\* the try around Path(bad_reply_path).write_text(raw): the write is skipped
\* without a path, and an exception from it is logged and dropped
SaveBadReply_unguarded(t, given, writable) ==
    [exc |-> given /\ ~writable, file |-> IF given /\ writable THEN <<t>> ELSE <<>>]

\* the reply is saved whether or not a path was given
SaveBadReply_always(t, given, writable) ==
    [exc |-> FALSE, file |-> IF writable THEN <<t>> ELSE <<>>]

SaveBadReply(t, given, writable) ==
    [exc |-> FALSE, file |-> IF given /\ writable THEN <<t>> ELSE <<>>]

\* the first candidate that decodes; an exception from a candidate moves on
\* to the next one
RECURSIVE FirstDecoded(_)
FirstDecoded(cands) ==
    IF cands = <<>> THEN Failed
    ELSE IF _json_load_lenient(Head(cands)).ok THEN _json_load_lenient(Head(cands))
    ELSE FirstDecoded(Tail(cands))

\* _parse_any_plan(raw, bad_reply_path) where the diagnostic file can be
\* written or not: exc when an exception leaves the function, else the plan
\* returned and the diagnostic file written
_parse_any_plan(t, given, writable) ==
    LET c == FirstDecoded(_extract_json_candidates(t))
        r == _json_load_lenient(t)
        saved == SaveBadReply(t, given, writable)
    IN  IF c.ok THEN [exc |-> FALSE, plan |-> _normalize_plan(c.v), file |-> <<>>]
        ELSE IF r.ok THEN [exc |-> FALSE, plan |-> _normalize_plan(r.v), file |-> <<>>]
        ELSE [exc |-> saved.exc, plan |-> _normalize_plan(StrV(t)), file |-> saved.file]

NoParsed == Plan(NullV, <<>>, NullV, NullV)

\* no normalization under way
NormIdle ==
    /\ raw = <<>>
    /\ bad_reply_path = FALSE
    /\ parsed = NoParsed
    /\ normOutcome = "none"
    /\ badReplyFile = <<>>

BUILTIN_HOOKS == {"pre_execute", "post_execute", "pre_run", "post_run", "detect_stack",
                  "pre_build", "post_build"}

\* PluginManager.__init__
PlugIdle ==
    /\ _hooks = [e \in BUILTIN_HOOKS |-> <<>>]
    /\ _plugins = <<>>
    /\ _loaded_names = {}
    /\ fired = <<>>
    /\ hookResult = "None"
    /\ lastCall = [op |-> "none", a |-> "", b |-> "", c |-> 0]   \* no call yet

\* no get_plan under way, no cache file
LlmIdle ==
    /\ getPc = "idle"
    /\ user_prompt = <<>>
    /\ cache_enabled = FALSE
    /\ cached = NoParsed
    /\ getReturned = NoParsed
    /\ attempt = 0
    /\ max_retries = 0
    /\ caching_enabled = FALSE
    /\ cacheFile = NoParsed
    /\ llmCalls = <<>>
    /\ getRaised = ""

\* no _absolutize_main_cmd call yet
AbsIdle ==
    /\ absCmd = <<>>
    /\ absOutcome = "none"
    /\ absSame = FALSE
    /\ absParts = <<>>

AuxIdle == PlugIdle /\ LlmIdle /\ AbsIdle

\* parse_model_reply_to_plan(raw, bad_reply_path)
Normalize ==
    /\ normOutcome = "none"
    /\ \E writable \in BOOLEAN :
         LET res == _parse_any_plan(raw, bad_reply_path, writable) IN
         /\ normOutcome' = IF res.exc THEN "raised" ELSE "returned"
         /\ parsed' = IF res.exc THEN NoParsed ELSE res.plan
         /\ badReplyFile' = res.file
    /\ UNCHANGED <<raw, bad_reply_path, applyVars, auxVars>>

----------------------------------------------------------------------------
(* The plans the model applies *)

Plain == <<<<"code">>>>
Guarded == <<<<"code">>, <<MainGuard>>>>
F(name, code) == [filename |-> Named(name), code |-> code]
Up(name) == [filename |-> FileName(FALSE, <<DotDot, C(name)>>), code |-> Plain]

\* one file list per stack
StackLists ==
    { <<F("README.md", Plain)>>,
      <<F("main.py", Guarded)>>,
      <<F("package.json", <<<<"scripts.start">>>>), F("index.js", Plain)>>,
      <<F("go.mod", Plain), F("main.go", Plain)>>,
      <<F("Cargo.toml", Plain)>>,
      <<F("build.gradle", Plain)>>,
      <<F("pom.xml", Plain)>>,
      <<F("Main.java", <<<<"public static void main">>>>)>>,
      <<F("CMakeLists.txt", Plain), F("main.cpp", Plain)>> }

\* further file lists: no file, a requirements file, a Poetry project,
\* a file named bin, the plan's own launcher, and a file
\* above the project directory
OtherLists ==
    { <<>>,
      <<F("main.py", Plain), F("requirements.txt", Plain)>>,
      <<F("pyproject.toml", <<<<"[tool.poetry]">>>>), F("app.py", Plain)>>,
      <<F("bin", Plain), F("go.mod", Plain)>>,
      <<F("run.sh", Plain), F("main.cpp", Plain)>>,
      <<F("main.py", Plain), Up("main.py")>> }

FileLists == StackLists \cup OtherLists

PostInstalls == { <<[isStr |-> TRUE, cmd |-> "post:1"], [isStr |-> FALSE, cmd |-> "post:x"],
                    [isStr |-> TRUE, cmd |-> "post:2"]>> }

\* plan["run"] absent or empty: every file list
PlansNoHint ==
    [name : {<<"a">>}, files : FileLists, run : {<<>>},
     post_install : PostInstalls, is_app : {TRUE}]

\* plan["run"] given: every stack
PlansHint ==
    [name : {<<"a">>}, files : StackLists, run : {<<"go", " ", "run", " ", ".">>},
     post_install : PostInstalls, is_app : {TRUE}]

\* plan["run"] blank or a python command; plan["name"] absent or empty
PlansMore ==
    [name : {<<"a">>},
     files : {<<F("main.py", Guarded)>>, <<F("README.md", Plain)>>,
              <<F("pyproject.toml", <<<<"[tool.poetry]">>>>), F("app.py", Plain)>>},
     run : {<<" ">>, <<" ", "python", " ", "main.py">>},
     post_install : {<<>>}, is_app : {FALSE}]
    \cup
    [name : {<<>>}, files : {<<F("README.md", Plain)>>}, run : {<<>>},
     post_install : {<<>>}, is_app : {TRUE}]

\* a PDM project, and a project that declares Poetry and PDM, each with a
\* requirements file
PlansTool ==
    [name : {<<"a">>},
     files : {<<F("pyproject.toml", <<<<"[tool.pdm]">>>>), F("requirements.txt", Plain)>>,
              <<F("pyproject.toml", <<<<"[tool.poetry]">>, <<"[tool.pdm]">>>>),
                F("requirements.txt", Plain)>>},
     run : {<<>>}, post_install : PostInstalls, is_app : {TRUE}]

Plans == PlansNoHint \cup PlansHint \cup PlansMore \cup PlansTool

\* the plans of concurrent callers: one project name, three stacks
PlansConc ==
    [name : {<<"a">>},
     files : { <<F("README.md", Plain)>>, <<F("main.py", Plain)>>,
               <<F("package.json", Plain)>> },
     run : {<<>>}, post_install : {<<>>}, is_app : {TRUE}]

NoPlan == [name |-> <<>>, files |-> <<>>, run |-> <<>>, post_install |-> <<>>,
           is_app |-> FALSE]

----------------------------------------------------------------------------
(* Specifications *)

\* no apply_plan call under way, an empty base directory
ApplyIdle ==
    /\ pc = [p \in Procs |-> "idle"]
    /\ plan = [p \in Procs |-> NoPlan]
    /\ slug = [p \in Procs |-> <<>>]
    /\ cand = [p \in Procs |-> <<>>]
    /\ ctr = [p \in Procs |-> 2]
    /\ written = [p \in Procs |-> <<>>]
    /\ stack = [p \in Procs |-> ""]
    /\ venv = [p \in Procs |-> FALSE]
    /\ hint = [p \in Procs |-> <<>>]
    /\ runCmd = [p \in Procs |-> <<>>]
    /\ outcome = [p \in Procs |-> "none"]
    /\ trace = [p \in Procs |-> <<>>]
    /\ fsFiles = <<>>
    /\ fsDirs = {<<>>, BaseDir}
    /\ fsExec = {}

Init == ApplyIdle /\ NormIdle /\ AuxIdle

Finished(p) == pc[p] \in {"done", "failed"}

\* one caller calls apply_plan again and again, each call after the last
\* one returned or raised (invocation p is the p-th call): the first call
\* applies any plan, a later one the plan of the call before it or a plan
\* of PlansConc
Call(p) ==
    /\ pc[p] = "idle"
    /\ \A q \in Procs : q < p => Finished(q)
    /\ \E pl \in (IF p = 1 THEN Plans ELSE {plan[p - 1]} \cup PlansConc) :
           Enter(p, pl)

Next == \E p \in Procs : Call(p) \/ Stages(p)

Spec == Init /\ [][Next]_vars

\* NumApplies callers call apply_plan once each, at any time
CallConc(p) ==
    /\ pc[p] = "idle"
    /\ \E pl \in PlansConc : Enter(p, pl)

NextConc == \E p \in Procs : CallConc(p) \/ Stages(p)

SpecConc == Init /\ [][NextConc]_vars

----------------------------------------------------------------------------
(* Materialization alone: _write_files on a freshly allocated directory *)

SeqsUpTo(S, n) == UNION {[1..k -> S] : k \in 0..n}

WriteComps == {DotDot, Dot, C("a")}

\* relative names of up to MaxComps components, and names with a leading
\* separator of at most one component
WriteNames == [abs : {FALSE}, comps : SeqsUpTo(WriteComps, MaxComps)]
              \cup [abs : {TRUE}, comps : SeqsUpTo(WriteComps, 1)]

WriteLists == SeqsUpTo([filename : WriteNames, code : {Plain}], MaxFiles)

InitWrite ==
    /\ \E fl \in WriteLists :
         plan = [p \in Procs |-> IF p = 1 THEN [NoPlan EXCEPT !.files = fl] ELSE NoPlan]
    /\ pc = [p \in Procs |-> IF p = 1 THEN "allocated" ELSE "idle"]
    /\ slug = [p \in Procs |-> IF p = 1 THEN <<"p">> ELSE <<>>]
    /\ cand = [p \in Procs |-> IF p = 1 THEN InBase(<<"p">>) ELSE <<>>]
    /\ ctr = [p \in Procs |-> 2]
    /\ written = [p \in Procs |-> <<>>]
    /\ stack = [p \in Procs |-> ""]
    /\ venv = [p \in Procs |-> FALSE]
    /\ hint = [p \in Procs |-> <<>>]
    /\ runCmd = [p \in Procs |-> <<>>]
    /\ outcome = [p \in Procs |-> "none"]
    /\ trace = [p \in Procs |-> IF p = 1 THEN <<"NEW", "DIRECTORY_ALLOCATED">> ELSE <<>>]
    /\ fsFiles = <<>>
    /\ fsDirs = {<<>>, BaseDir, InBase(<<"p">>)}
    /\ fsExec = {}
    /\ NormIdle
    /\ AuxIdle

NextWrite == \E p \in Procs : WriteFiles(p)

SpecWrite == InitWrite /\ [][NextWrite]_vars

----------------------------------------------------------------------------
(* Launchers alone: attach_launchers called again and again on one project
   directory *)

\* the files already in the directory: any of the launchers, brought by the
\* plan, next to a program; or a directory where run.bat should be
LaunchLists ==
    {l \o rest :
        l \in {<<>>, <<F("run.sh", Plain)>>, <<F("run.command", Plain)>>,
                <<F("run.bat", Plain)>>, <<F("run.sh", Plain), F("run.bat", Plain)>>,
                <<F("run.sh", Plain), F("run.command", Plain), F("run.bat", Plain)>>},
        rest \in {<<>>, <<F("main.py", Guarded)>>, <<F("index.js", Plain)>>}}
    \cup {<<[filename |-> FileName(FALSE, <<C("run.bat"), C("x")>>), code |-> Plain]>>}

\* direct_cmd of a call: none, a command, the same with blanks around it
LaunchCmds == {<<>>, <<"node", " ", "index.js">>, <<" ", "npm", " ", "start", " ">>}

InitLaunch ==
    /\ \E fl \in LaunchLists :
         LET r == _write_files(FsOf(<<>>, {<<>>, BaseDir, InBase(<<"p">>)}, {}),
                               InBase(<<"p">>), fl)
         IN  /\ plan = [p \in Procs |-> IF p = 1 THEN [NoPlan EXCEPT !.files = fl] ELSE NoPlan]
             /\ written = [p \in Procs |-> IF p = 1 THEN r.written ELSE <<>>]
             /\ stack = [p \in Procs |-> IF p = 1 THEN _detect_stack(fl) ELSE ""]
             /\ fsFiles = r.fs.files
             /\ fsDirs = r.fs.dirs
             /\ fsExec = r.fs.exec
    /\ pc = [p \in Procs |-> IF p = 1 THEN "resolved" ELSE "idle"]
    /\ slug = [p \in Procs |-> IF p = 1 THEN <<"p">> ELSE <<>>]
    /\ cand = [p \in Procs |-> IF p = 1 THEN InBase(<<"p">>) ELSE <<>>]
    /\ ctr = [p \in Procs |-> 2]
    /\ venv = [p \in Procs |-> FALSE]
    /\ hint = [p \in Procs |-> <<>>]
    /\ runCmd = [p \in Procs |-> <<>>]
    /\ outcome = [p \in Procs |-> "none"]
    /\ trace = [p \in Procs |-> <<>>]
    /\ NormIdle
    /\ AuxIdle

\* attach_launchers(project_dir, files_written, direct_cmd=cmd, is_app=app),
\* called by anyone, any number of times; runCmd and outcome keep the
\* direct_cmd and the exception of the last call
Attach(p) ==
    /\ pc[p] \in {"resolved", "launched"}
    /\ \E cmd \in LaunchCmds, app \in BOOLEAN :
         LET r == attach_launchers(Fs, cand[p], written[p], cmd, app) IN
         /\ SetFs(r.fs)
         /\ runCmd' = [runCmd EXCEPT ![p] = cmd]
         /\ outcome' = [outcome EXCEPT ![p] = r.err]
    /\ pc' = [pc EXCEPT ![p] = "launched"]
    /\ UNCHANGED <<normVars, auxVars, plan, slug, cand, ctr, written, stack, venv, hint, trace>>

NextLaunch == \E p \in Procs : Attach(p)

SpecLaunch == InitLaunch /\ [][NextLaunch]_vars

----------------------------------------------------------------------------
(* Stack detection alone: _detect_stack on a file list, then on a
   rearrangement of that list *)

\* one or two file names for each rule, and one that matches no rule
DetectNames == {"main.py", "requirements.txt", "package.json", "index.js", "go.mod",
                "main.go", "Cargo.toml", "build.gradle", "gradlew", "pom.xml",
                "Main.java", "CMakeLists.txt", "main.cpp", "README.md"}

DetectLists ==
    UNION {[1..n -> {F(x, Plain) : x \in DetectNames}] : n \in 0..MaxFiles}

\* the list in another order
Permuted(fl) == {[i \in DOMAIN fl |-> fl[f[i]]] : f \in Permutations(DOMAIN fl)}

\* every order of the list, and of the list with one of its files twice
Rearranged(fl) ==
    UNION {Permuted(g) : g \in {fl} \cup {Append(fl, fl[i]) : i \in DOMAIN fl}}

InitDetect ==
    /\ ApplyIdle
    /\ NormIdle
    /\ AuxIdle

\* stack = _detect_stack(files), on any file list
Detect ==
    /\ pc[1] = "idle"
    /\ \E fl \in DetectLists :
         /\ plan' = [plan EXCEPT ![1] = [NoPlan EXCEPT !.files = fl]]
         /\ stack' = [stack EXCEPT ![1] = _detect_stack(fl)]
    /\ pc' = [pc EXCEPT ![1] = "detected"]
    /\ UNCHANGED <<normVars, auxVars, slug, cand, ctr, written, venv, hint, runCmd, outcome, trace,
                   fsFiles, fsDirs, fsExec>>

\* stack = _detect_stack(files), on the files of the first call in another
\* order or with a duplicate
DetectAgain ==
    /\ pc[1] = "detected"
    /\ pc[2] = "idle"
    /\ \E fl \in Rearranged(plan[1].files) :
         /\ plan' = [plan EXCEPT ![2] = [NoPlan EXCEPT !.files = fl]]
         /\ stack' = [stack EXCEPT ![2] = _detect_stack(fl)]
    /\ pc' = [pc EXCEPT ![2] = "detected"]
    /\ UNCHANGED <<normVars, auxVars, slug, cand, ctr, written, venv, hint, runCmd, outcome, trace,
                   fsFiles, fsDirs, fsExec>>

NextDetect == Detect \/ DetectAgain

SpecDetect == InitDetect /\ [][NextDetect]_vars

----------------------------------------------------------------------------
(* plugins/__init__.py: PluginManager *)

\* callbacks registered in one manager
MaxHooks == 3

\* add_hook's default priority, and a lower one
DefaultPriority == 100
Priorities == {50, DefaultPriority}

\* the callbacks: two return a value, one returns None, one raises an
\* Exception
Callbacks == {"ret_a", "ret_b", "ret_none", "raises"}

\* cb(**kwargs): the value returned ("None" for None), or "raise"
CallOf(cb) ==
    CASE cb = "ret_a" -> "a"
      [] cb = "ret_b" -> "b"
      [] cb = "ret_none" -> "None"
      [] OTHER -> "raise"

\* the events add_hook is called with, and those hook is called with
HookEvents == {"pre_execute", "my_custom_event"}
FiredEvents == HookEvents \cup {"post_run", "never_registered"}

\* one (priority, callback) tuple of a hook list; reg is not in the tuple: it
\* numbers the add_hook calls, to tell which of two tuples came first
Hooked(priority, callback, reg) ==
    [priority |-> priority, callback |-> callback, reg |-> reg]

MethodCall(op, a, b, c) == [op |-> op, a |-> a, b |-> b, c |-> c]

\* one step of the stable sort: t goes behind every tuple whose priority is
\* not greater
InsertSorted(sorted, t) ==
    LET n == Cardinality({i \in DOMAIN sorted : sorted[i].priority <= t.priority})
    IN  SubSeq(sorted, 1, n) \o <<t>> \o SubSeq(sorted, n + 1, Len(sorted))

\* the list is left as appended
SortByPriority_unsorted(l) == l

\* list.sort(key=lambda t: t[0]): stable
RECURSIVE SortByPriority(_)
SortByPriority(l) ==
    IF l = <<>> THEN <<>> ELSE InsertSorted(SortByPriority(Front(l)), Last(l))

\* register_hook_type(event)
register_hook_type(hooks, event) ==
    IF event \notin DOMAIN hooks THEN hooks @@ (event :> <<>>) ELSE hooks

\* add_hook(event, callback, priority=priority)
add_hook(hooks, event, callback, priority, reg) ==
    LET h == register_hook_type(hooks, event) IN
    [h EXCEPT ![event] = SortByPriority(Append(@, Hooked(priority, callback, reg)))]

\* the dispatch ends at the first callback that raises
RECURSIVE Dispatch_stopsAtError(_, _)
Dispatch_stopsAtError(todo, st) ==
    IF todo = <<>> THEN st
    ELSE LET ret == CallOf(Head(todo).callback)
             ran == [st EXCEPT !.fired = Append(@, Head(todo))]
         IN  IF ret = "raise" THEN ran
             ELSE Dispatch_stopsAtError(Tail(todo),
                      IF ret # "None" THEN [ran EXCEPT !.result = ret] ELSE ran)

\* every value returned replaces the result, None too
RECURSIVE Dispatch_lastReturn(_, _)
Dispatch_lastReturn(todo, st) ==
    IF todo = <<>> THEN st
    ELSE LET ret == CallOf(Head(todo).callback)
             ran == [st EXCEPT !.fired = Append(@, Head(todo))]
         IN  Dispatch_lastReturn(Tail(todo),
                 IF ret # "raise" THEN [ran EXCEPT !.result = ret] ELSE ran)

\* the loop of hook(): `for _prio, cb in ...: try: ret = cb(**kwargs) ...`
RECURSIVE Dispatch(_, _)
Dispatch(todo, st) ==
    IF todo = <<>> THEN st
    ELSE LET ret == CallOf(Head(todo).callback)
             ran == [st EXCEPT !.fired = Append(@, Head(todo))]
         IN  Dispatch(Tail(todo),
                 IF ret \notin {"raise", "None"} THEN [ran EXCEPT !.result = ret] ELSE ran)

\* hook(event): [fired, result]
hook(hooks, event) ==
    Dispatch(IF event \in DOMAIN hooks THEN hooks[event] ELSE <<>>,
             [fired |-> <<>>, result |-> "None"])

\* the name is registered again, in place of the entry it had
register_plugin_replace(plugins, loaded_names, name, description) ==
    [plugins |-> SelectSeq(plugins, LAMBDA e : e.name # name)
                   \o <<[name |-> name, description |-> description]>>,
     loaded_names |-> loaded_names \cup {name}]

\* register_plugin(name, description): [plugins, loaded_names]
register_plugin(plugins, loaded_names, name, description) ==
    IF name \in loaded_names
    THEN [plugins |-> plugins, loaded_names |-> loaded_names]
    ELSE [plugins |-> Append(plugins, [name |-> name, description |-> description]),
          loaded_names |-> loaded_names \cup {name}]

PluginNames == {"dup", "base", "child"}
Descriptions == {"first", "second"}

\* the add_hook calls made so far
Registered == UNION {{_hooks[e][i].reg : i \in DOMAIN _hooks[e]} : e \in DOMAIN _hooks}

RegisterHookType ==
    \E e \in HookEvents :
        /\ e \notin DOMAIN _hooks
        /\ _hooks' = register_hook_type(_hooks, e)
        /\ lastCall' = MethodCall("register_hook_type", e, "", 0)
        /\ fired' = <<>>
        /\ hookResult' = "None"
        /\ UNCHANGED <<_plugins, _loaded_names, applyVars, normVars, llmVars, absVars>>

AddHook ==
    /\ Cardinality(Registered) < MaxHooks
    /\ \E e \in HookEvents, cb \in Callbacks, prio \in Priorities :
         /\ _hooks' = add_hook(_hooks, e, cb, prio, Cardinality(Registered) + 1)
         /\ lastCall' = MethodCall("add_hook", e, cb, prio)
    /\ fired' = <<>>
    /\ hookResult' = "None"
    /\ UNCHANGED <<_plugins, _loaded_names, applyVars, normVars, llmVars, absVars>>

Hook ==
    /\ \E e \in FiredEvents :
         LET r == hook(_hooks, e) IN
         /\ fired' = r.fired
         /\ hookResult' = r.result
         /\ lastCall' = MethodCall("hook", e, "", 0)
    /\ UNCHANGED <<_hooks, _plugins, _loaded_names, applyVars, normVars, llmVars, absVars>>

InitHooks == ApplyIdle /\ NormIdle /\ AuxIdle

NextHooks == RegisterHookType \/ AddHook \/ Hook

SpecHooks == InitHooks /\ [][NextHooks]_vars

RegisterPlugin ==
    /\ \E name \in PluginNames, description \in Descriptions :
         LET r == register_plugin(_plugins, _loaded_names, name, description) IN
         /\ _plugins' = r.plugins
         /\ _loaded_names' = r.loaded_names
         /\ lastCall' = MethodCall("register_plugin", name, description, 0)
    /\ UNCHANGED <<_hooks, fired, hookResult, applyVars, normVars, llmVars, absVars>>

InitPlugins == ApplyIdle /\ NormIdle /\ AuxIdle

NextPlugins == RegisterPlugin

SpecPlugins == InitPlugins /\ [][NextPlugins]_vars

----------------------------------------------------------------------------
(* utils/helper.py: _absolutize_main_cmd *)

\* words per command
MaxCmd == 3

\* the words of a command: a program, flags, a module name, a file name, a
\* relative path, an absolute path, a path that climbs, and a word with a
\* quote that is not closed
CmdWords == {"python", "-m", "-c", "-u", "pkg", "main.py", "src/app", "/usr/x.py",
             "../x.py", "'oops"}

\* the commands: words with one blank between them, and one with blanks
\* around a word
Commands ==
    {Join(ws) : ws \in UNION {[1..n -> CmdWords] : n \in 0..MaxCmd}}
    \cup {<<" ">>, <<" ", "python", " ", " ", "main.py">>}

\* the word as a path
PathOf(tok) ==
    CASE tok = "src/app" -> FileName(FALSE, <<C("src"), C("app")>>)
      [] tok = "/usr/x.py" -> FileName(TRUE, <<C("usr"), C("x.py")>>)
      [] tok = "../x.py" -> FileName(FALSE, <<DotDot, C("x.py")>>)
      [] OTHER -> FileName(FALSE, <<C(tok)>>)

\* "/" in tok or "\\" in tok or Path(tok).suffix
FileLike(tok) ==
    \/ PathOf(tok).abs \/ Len(PathOf(tok).comps) > 1
    \/ tok = "main.py"

\* tok.startswith("-")
IsFlag(tok) == tok \in {"-m", "-c", "-u"}

\* one token of the command returned: the word, and the absolute path put in
\* its place (<<>> when the word stands as it was)
Token(tok, path) == [tok |-> tok, path |-> path]

\* shlex.split(main_cmd): the words, ValueError when a quote is not closed
ShlexSplit(cmd) ==
    [err |-> \E i \in DOMAIN cmd : cmd[i] = "'oops", parts |-> Split(cmd)]

\* the loop stops at the last token that looks like a file
StopAt_last(parts) ==
    LET S == {i \in 2..Len(parts) : ~IsFlag(parts[i]) /\ FileLike(parts[i])}
    IN  IF S = {} THEN 0 ELSE CHOOSE i \in S : \A j \in S : j <= i

\* `for i in range(1, len(parts))`: the index, from 1, of the token the loop
\* ends at (-m, -c, or the first one that is no flag and looks like a file);
\* 0 when it runs to the end
StopAt(parts) ==
    LET S == {i \in 2..Len(parts) :
                 parts[i] \in {"-m", "-c"} \/ (~IsFlag(parts[i]) /\ FileLike(parts[i]))}
    IN  IF S = {} THEN 0 ELSE CHOOSE i \in S : \A j \in S : i <= j

\* _absolutize_main_cmd(project_dir, main_cmd): [err, same, parts]; same says
\* that main_cmd itself is returned, parts are the tokens of the result
_absolutize_main_cmd(project_dir, cmd) ==
    LET sp == ShlexSplit(cmd)
        kept == [i \in DOMAIN sp.parts |-> Token(sp.parts[i], <<>>)]
        k == StopAt(sp.parts)
    IN  IF cmd = <<>> THEN [err |-> FALSE, same |-> TRUE, parts |-> <<>>]
        ELSE IF sp.err THEN [err |-> TRUE, same |-> FALSE, parts |-> <<>>]
        ELSE IF sp.parts = <<>> THEN [err |-> FALSE, same |-> TRUE, parts |-> <<>>]
        ELSE IF k = 0 THEN [err |-> FALSE, same |-> FALSE, parts |-> kept]
        ELSE IF sp.parts[k] \in {"-m", "-c"} THEN [err |-> FALSE, same |-> TRUE, parts |-> kept]
        ELSE [err |-> FALSE, same |-> FALSE,
              parts |-> [kept EXCEPT ![k].path =
                            Resolve(JoinPath(project_dir, PathOf(sp.parts[k])))]]

ProjectDir == InBase(<<"p">>)

InitAbs ==
    /\ ApplyIdle
    /\ NormIdle
    /\ PlugIdle
    /\ LlmIdle
    /\ absCmd \in Commands
    /\ absOutcome = "none"
    /\ absSame = FALSE
    /\ absParts = <<>>

Absolutize ==
    /\ absOutcome = "none"
    /\ LET r == _absolutize_main_cmd(ProjectDir, absCmd) IN
       /\ absOutcome' = IF r.err THEN "raised" ELSE "returned"
       /\ absSame' = r.same
       /\ absParts' = r.parts
    /\ UNCHANGED <<absCmd, applyVars, normVars, plugVars, llmVars>>

NextAbs == Absolutize

SpecAbs == InitAbs /\ [][NextAbs]_vars

----------------------------------------------------------------------------
(* Normalization alone: parse_model_reply_to_plan on one reply *)

\* every text of up to MaxRaw of these atoms
RawAtoms == {"{", "}", "[", "]", ",", Quote, "1", " ", "x"}
ShortTexts == SeqsUpTo(RawAtoms, MaxRaw)

FileItem(fn, code) ==
    DictV(<<Key("filename"), Key("code")>>, <<fn, code>>)

\* file contents: plain, and with a comma before a closing bracket
DocCodes == { <<"x">>, <<"[", "1", ",", "]">> }
DocNames == { <<"main.py">>, <<"/", "run.sh">> }

\* items of a "files" list: file objects, one whose code is a number, and a
\* string, which is no file object
DocItems ==
    {FileItem(StrV(fn), StrV(code)) : fn \in DocNames, code \in DocCodes}
    \cup {FileItem(StrV(<<"README.md">>), NumV(<<"1">>)), StrV(<<"x">>)}

DocLists == SeqsUpTo(DocItems, MaxDocFiles)

\* decoded replies in the shape of a plan: a name and up to MaxDocFiles files
DocPlans ==
    {DictV(<<Key("name"), Key("files")>>, <<StrV(<<"x">>), ListV(l)>>) : l \in DocLists}

\* further decoded replies, of at most one file: a plan object with a null
\* name, with a run hint, an object keyed by file name, a bare list of
\* files, and values that are no plan
DocOthers ==
    {DictV(<<Key("name"), Key("files")>>, <<NullV, ListV(l)>>) :
        l \in SeqsUpTo(DocItems, 1)}
    \cup {DictV(<<Key("files"), Key("run")>>, <<ListV(l), r>>) :
        l \in SeqsUpTo(DocItems, 1), r \in {StrV(<<>>), StrV(<<"go">>)}}
    \cup {ListV(l) : l \in SeqsUpTo(DocItems, 1)}
    \cup {DictV(<<fn, Key("post_install")>>, <<StrV(code), StrV(<<"x">>)>>) :
        fn \in DocNames \cup {<<"pkg", "/", "__main__.py">>}, code \in DocCodes}
    \cup {DictV(<<>>, <<>>), StrV(<<"x">>), NumV(<<"1">>), NullV}

\* a reply around the JSON text d: the text alone, after a sentence, in a
\* fence, in a fence between sentences, with a comma before its last
\* bracket, in a fence after a fenced empty list, in a fence after a fenced
\* block that is no JSON, and bare after such a block
Replies(d) ==
    { d,
      <<"Sure", " ">> \o d,
      <<Fence, "json", "\n">> \o d \o <<"\n", Fence>>,
      <<"Sure", " ", Fence>> \o d \o <<Fence, " ", "x">>,
      Front(d) \o <<",", Last(d)>>,
      <<Fence, "[", "]", Fence, Fence>> \o d \o <<Fence>>,
      <<Fence, "{", "x", "}", Fence, Fence>> \o d \o <<Fence>>,
      <<Fence, "{", "x", "}", Fence, " ">> \o d }

DocTexts == {Dumps(v, 0) : v \in DocPlans}
            \cup UNION {Replies(Dumps(v, 0)) : v \in DocOthers}

RawTexts == ShortTexts \cup DocTexts

InitNorm ==
    /\ ApplyIdle
    /\ AuxIdle
    /\ raw \in RawTexts
    /\ bad_reply_path \in BOOLEAN
    /\ parsed = NoParsed
    /\ normOutcome = "none"
    /\ badReplyFile = <<>>

NextNorm == Normalize

SpecNorm == InitNorm /\ [][NextNorm]_vars

----------------------------------------------------------------------------
(* get_plan: the cache lookup and the retry loop around the LLM call *)

\* range(max_retries) ends one after max_retries
range_inclusive(n) == 0..n

\* range(max_retries)
range(n) == 0..(n - 1)

\* _cache_get where the file of the key holds `file` (NoParsed: no file) and
\* is readable (younger than the ttl, and its text decodes) or not
_cache_get(enabled, file, readable) ==
    IF ~enabled THEN NoParsed
    ELSE IF file = NoParsed THEN NoParsed
    ELSE IF ~readable THEN NoParsed
    ELSE file

\* _cache_set: the file of the key afterwards; a failed write is dropped
_cache_set(enabled, file, newPlan, writable) ==
    IF enabled /\ writable THEN newPlan ELSE file

\* prompts: empty, blank, and a real one
Prompts == {<<>>, <<" ">>, <<"x">>}

\* resp.choices[0].message.content: none (<<>>), prose, objects, a list
Contents == {<<>>, <<"x">>, <<" ", "x">>, <<"{", "}">>, <<"{", "}", " ">>, <<"[", "]">>}

UseCache == {"None", "True", "False"}

ChatFailed == [ok |-> FALSE, reply |-> <<>>]
ChatReplied(r) == [ok |-> TRUE, reply |-> r]

\* get_plan up to the retry loop: argument check and cache lookup
GetPlan ==
    /\ getPc \in {"idle", "returned", "raised"}
    /\ \E up \in Prompts, mr \in 0..MaxRetries, use_cache \in UseCache,
          cfg \in BOOLEAN, readable \in BOOLEAN :
         LET ce == IF use_cache = "None" THEN cfg ELSE use_cache = "True"
             hit == IF ce THEN _cache_get(cfg, cacheFile, readable) ELSE NoParsed
         IN  /\ user_prompt' = up
             /\ max_retries' = mr
             /\ cache_enabled' = cfg
             /\ attempt' = 0
             /\ llmCalls' = <<>>
             /\ IF Strip(up) = <<>>
                THEN /\ getPc' = "raised"
                     /\ getRaised' = "ValueError"
                     /\ caching_enabled' = FALSE
                     /\ cached' = NoParsed
                     /\ getReturned' = NoParsed
                ELSE /\ caching_enabled' = ce
                     /\ cached' = hit
                     /\ getRaised' = ""
                     /\ getReturned' = hit
                     /\ getPc' = IF hit # NoParsed THEN "returned" ELSE "loop"
    /\ UNCHANGED <<cacheFile, applyVars, normVars, plugVars, absVars>>

\* one turn of the loop in which _chat_raw returns: the reply is parsed (no
\* exception leaves _parse_any_plan), cached, and returned
ChatReplies ==
    /\ getPc = "loop"
    /\ attempt \in range(max_retries)
    /\ \E content \in Contents, writable \in BOOLEAN :
         LET reply == Strip(content)
             res == _parse_any_plan(reply, FALSE, FALSE)
         IN  /\ llmCalls' = Append(llmCalls, ChatReplied(reply))
             /\ cacheFile' = IF caching_enabled
                              THEN _cache_set(cache_enabled, cacheFile, res.plan, writable)
                              ELSE cacheFile
             /\ getReturned' = res.plan
             /\ getPc' = "returned"
    /\ UNCHANGED <<user_prompt, cache_enabled, cached, attempt, max_retries,
                   caching_enabled, getRaised, applyVars, normVars, plugVars, absVars>>

\* one turn of the loop in which _chat_raw raises
ChatFails ==
    /\ getPc = "loop"
    /\ attempt \in range(max_retries)
    /\ llmCalls' = Append(llmCalls, ChatFailed)
    /\ IF attempt < max_retries - 1
       THEN /\ attempt' = attempt + 1
            /\ UNCHANGED <<getPc, getRaised>>
       ELSE /\ getPc' = "raised"
            /\ getRaised' = "RuntimeError"
            /\ UNCHANGED attempt
    /\ UNCHANGED <<user_prompt, cache_enabled, cached, getReturned, max_retries,
                   caching_enabled, cacheFile, applyVars, normVars, plugVars, absVars>>

\* the loop has no turn left: the raise after it
LoopEnds ==
    /\ getPc = "loop"
    /\ attempt \notin range(max_retries)
    /\ getPc' = "raised"
    /\ getRaised' = "RuntimeError"
    /\ UNCHANGED <<user_prompt, cache_enabled, cached, getReturned, attempt, max_retries,
                   caching_enabled, cacheFile, llmCalls, applyVars, normVars, plugVars,
                   absVars>>

InitLlm ==
    /\ ApplyIdle
    /\ NormIdle
    /\ AuxIdle

NextLlm == GetPlan \/ ChatReplies \/ ChatFails \/ LoopEnds

SpecLlm == InitLlm /\ [][NextLlm]_vars

----------------------------------------------------------------------------
(* Properties *)

Range(f) == {f[i] : i \in DOMAIN f}

Allocated(p) == "DIRECTORY_ALLOCATED" \in Range(trace[p])

\* _write_files of invocation p has returned or raised
Materialized(p) == Allocated(p) /\ pc[p] \notin {"check", "mkdir", "allocated"}

\* the filename, as written in the plan, has the substring "../"
ContainsDotDotSlash(fn) ==
    \E i \in 1..(Len(fn.comps) - 1) : Last(fn.comps[i]) = ".."

\* where the entry lands once "." and ".." are resolved against dir
Destination(dir, fn) == Resolve(dir \o fn.comps)

\* the destination is not below dir
Escapes(dir, fn) == ~IsProperPrefix(dir, Destination(dir, fn))

\* the entries of the plan of p whose destination is outside the project
\* directory (the directory itself is not outside)
Outside(p) ==
    {i \in DOMAIN plan[p].files :
        ~IsPrefix(cand[p], Destination(cand[p], plan[p].files[i].filename))}

Min(S) == CHOOSE x \in S : \A y \in S : x <= y

----------------------------------------------------------------------------
(* C1: concurrent apply_plan calls with the same plan name against the same
   root each get a distinct project directory: no two invocations that have
   allocated their directory hold the same one.  (SpecConc) *)
C1_DistinctDirectories ==
    \A p, q \in Procs :
        (p # q /\ Allocated(p) /\ Allocated(q) /\ plan[p].name = plan[q].name)
            => cand[p] # cand[q]

----------------------------------------------------------------------------
(* C2: for every plan containing a filename with "../", materialization
   raises the path-traversal error and writes no file of the plan, wherever
   the entry sits in the file list.  (SpecWrite) *)
C2_DotDotSlashWritesNothing ==
    \A p \in Procs :
        (Materialized(p)
         /\ \E i \in DOMAIN plan[p].files : ContainsDotDotSlash(plan[p].files[i].filename))
            => /\ outcome[p] = "traversal"
               /\ written[p] = <<>>
               /\ DOMAIN fsFiles = {}

(* C2 as amended: when some entry's destination resolves outside the project
   directory, materialization raises; the entries from the first such entry
   on are not written, the entries before it that were reached are; the error
   is the path-traversal error unless an earlier entry already raised an OS
   error; every file on disk is a written entry below the project directory.
   A name with "../" that resolves inside is not a traversal.  (SpecWrite) *)
C2_EscapeStopsAtFirst ==
    \A p \in Procs :
        Materialized(p) =>
            /\ DOMAIN fsFiles = Range(written[p])
            /\ Outside(p) # {} =>
                 /\ pc[p] = "failed"
                 /\ Len(written[p]) < Min(Outside(p))
                 /\ \/ outcome[p] = "traversal" /\ Len(written[p]) = Min(Outside(p)) - 1
                    \/ outcome[p] = "oserror" /\ Len(written[p]) < Min(Outside(p)) - 1
            /\ Outside(p) = {} => outcome[p] # "traversal"

\* a plan whose second entry escapes: the first entry is on disk, the
\* path-traversal error was raised
C2_Witness ==
    \E p \in Procs :
        /\ Materialized(p)
        /\ outcome[p] = "traversal"
        /\ Len(written[p]) = 1
        /\ Outside(p) = {2}
        /\ ContainsDotDotSlash(plan[p].files[2].filename)

----------------------------------------------------------------------------
(* C3: every path written by materialization is a descendant of the project
   directory after resolving "." and "..", and an entry whose resolved
   destination is not a descendant aborts the operation instead of being
   written.  (SpecWrite) *)
C3_WritesStayInside ==
    \A p \in Procs :
        Materialized(p) =>
            /\ \A q \in DOMAIN fsFiles : IsProperPrefix(cand[p], q)
            /\ \A i \in 1..Len(written[p]) : IsProperPrefix(cand[p], written[p][i])
            /\ (\E i \in DOMAIN plan[p].files :
                    Escapes(cand[p], plan[p].files[i].filename))
                 => /\ pc[p] = "failed"
                    /\ outcome[p] \in {"traversal", "oserror"}

\* an entry that resolves above the project directory was reached after a
\* first entry was written, and the operation aborted
C3_Witness ==
    \E p \in Procs :
        /\ Materialized(p)
        /\ pc[p] = "failed"
        /\ Len(written[p]) = 1
        /\ Len(plan[p].files) = 2
        /\ Destination(cand[p], plan[p].files[2].filename) = InBase(<<"a">>)

----------------------------------------------------------------------------
(* C4: for every plan whose files all stay inside the project directory,
   apply_plan returns a result record and raises no exception, whichever
   external tool step is missing or fails; the path-traversal error is the
   only error apply_plan propagates.  (Spec) *)
C4_OnlyTraversalPropagates ==
    \A p \in Procs :
        pc[p] = "failed" => (outcome[p] = "traversal" /\ Outside(p) # {})

----------------------------------------------------------------------------
(* C5: normalize is total: for every raw text, with or without a diagnostic
   path, and whether or not that path can be written, _parse_any_plan
   returns a plan and no exception leaves it.  (SpecNorm) *)
C5_NormalizeIsTotal ==
    /\ normOutcome \in {"none", "returned"}
    /\ normOutcome = "returned" =>
          /\ parsed # NoParsed
          /\ parsed.post_install.t = "list"
          /\ \A i \in DOMAIN parsed.files :
                DOMAIN parsed.files[i] = {"filename", "code"}

\* the reply decoded neither as a candidate nor as a whole, it was wrapped
\* as a script, and the diagnostic file could not be written
C5_Witness ==
    /\ normOutcome = "returned"
    /\ raw # <<>>
    /\ ~FirstDecoded(_extract_json_candidates(raw)).ok
    /\ ~_json_load_lenient(raw).ok
    /\ parsed.files = <<[filename |-> <<"main.py">>, code |-> raw]>>
    /\ bad_reply_path
    /\ badReplyFile = <<>>

----------------------------------------------------------------------------
(* C6: for every non-empty raw text that json.loads rejects (text that is
   no JSON, malformed JSON, prose around a JSON fragment), the plan returned
   by normalize has at least one file and a non-empty run hint.  (SpecNorm) *)
C6_MalformedGetsFileAndRun ==
    (normOutcome = "returned" /\ raw # <<>> /\ ~loads(raw).ok) =>
        /\ Len(parsed.files) >= 1
        /\ parsed.run.t = "str"
        /\ parsed.run.s # <<>>

----------------------------------------------------------------------------
(* C7: for every raw text that is a valid JSON object with a "files" list of
   {filename, code} objects of strings, the plan returned by normalize has
   one file per input file, and its code equals the code string of that
   input file atom for atom.  (SpecNorm) *)
PlanShaped(v) ==
    /\ v.t = "dict"
    /\ Has(v, Key("files"))
    /\ Get(v, Key("files")).t = "list"
    /\ \A i \in DOMAIN Get(v, Key("files")).items :
          LET it == Get(v, Key("files")).items[i] IN
          /\ IsFileItem(it)
          /\ Get(it, Key("filename")).t = "str"
          /\ Get(it, Key("code")).t = "str"

C7_CodeRoundTrips ==
    (normOutcome = "returned" /\ loads(raw).ok /\ PlanShaped(loads(raw).v)) =>
        LET items == Get(loads(raw).v, Key("files")).items IN
        /\ Len(parsed.files) = Len(items)
        /\ \A i \in DOMAIN items :
              parsed.files[i].code = Get(items[i], Key("code")).s

----------------------------------------------------------------------------
(* C8: when apply_plan is called twice with the same plan name against the
   same root, the second call's directory is another one and its name is the
   slug with a numeric suffix, and no step taken after the first call ended
   changes a file of the first project directory.  (Spec) *)
FilesBelow(files, dir) == {q \in DOMAIN files : IsProperPrefix(dir, q)}

HasNumericSuffix(p) ==
    \E n \in 2..(NumApplies + 1) : cand[p] = InBase(slug[p] \o <<"-", Digit(n)>>)

C8_SecondCallSuffixed ==
    \A p, q \in Procs :
        (p < q /\ Allocated(p) /\ Allocated(q) /\ plan[p].name = plan[q].name)
            => /\ cand[q] # cand[p]
               /\ HasNumericSuffix(q)

C8_FirstProjectKept ==
    \A p, q \in Procs :
        (p < q /\ Finished(p) /\ Allocated(p) /\ pc[q] # "idle"
         /\ plan[p].name = plan[q].name)
            => /\ FilesBelow(fsFiles', cand[p]) = FilesBelow(fsFiles, cand[p])
               /\ \A f \in FilesBelow(fsFiles, cand[p]) : fsFiles'[f] = fsFiles[f]

C8_NeverOverwritesFirst ==
    [](C8_SecondCallSuffixed) /\ [][C8_FirstProjectKept]_vars

\* both calls returned a result for the same plan name, the first project
\* has files, the second directory is <slug>-2
C8_Witness ==
    \E p, q \in Procs :
        /\ p < q
        /\ pc[p] = "done" /\ pc[q] = "done"
        /\ plan[p].name = plan[q].name
        /\ FilesBelow(fsFiles, cand[p]) # {}
        /\ FilesBelow(fsFiles, cand[q]) # {}
        /\ cand[q] = InBase(slug[q] \o <<"-", "2">>)

----------------------------------------------------------------------------
(* C9: for every plan whose detected stack is a compiled stack, apply_plan
   performs that stack's build step during the apply, for every value of the
   plan's run hint.  (Spec) *)
C9_CompiledStackIsBuilt ==
    \A p \in Procs :
        (pc[p] \in {"resolved", "launched", "done"} /\ stack[p] \in CompiledStacks)
            => \E i \in DOMAIN trace[p] : trace[p][i] \in Builders

----------------------------------------------------------------------------
(* C10: every apply_plan invocation moves through the stages NEW,
   DIRECTORY_ALLOCATED, FILES_WRITTEN, STACK_DETECTED, INSTALLED/BUILT,
   RUN_CMD_RESOLVED, LAUNCHERS_WRITTEN, DONE in this order, each at most
   once, and no install or build command runs once run-command resolution
   (_final_run_cmd) has begun.  (Spec) *)
StageOrder == <<"NEW", "DIRECTORY_ALLOCATED", "FILES_WRITTEN", "STACK_DETECTED",
                "INSTALLED", "RUN_CMD_RESOLVED", "LAUNCHERS_WRITTEN", "DONE">>

StagesOf(tr) == SelectSeq(tr, LAMBDA e : e \in Range(StageOrder))

C10_StagesInOrder ==
    \A p \in Procs :
        /\ IsPrefix(StagesOf(trace[p]), StageOrder)
        /\ \A i, j \in DOMAIN trace[p] :
             (i < j /\ trace[p][i] = "_final_run_cmd")
                => trace[p][j] \notin InstallCmds \cup BuildCmds

----------------------------------------------------------------------------
(* C11: when a plan file's destination escapes the project directory,
   apply_plan stops with the path-traversal error during file writing: that
   invocation has done nothing after allocating its directory (no stack
   detection, install, build, run-command resolution or launcher), the only
   files below its directory are the entries written before the error, and
   no result record is returned.  (Spec) *)
C11_TraversalStopsTheApply ==
    \A p \in Procs :
        outcome[p] = "traversal" =>
            /\ pc[p] = "failed"
            /\ Outside(p) # {}
            /\ trace[p] = <<"NEW", "DIRECTORY_ALLOCATED">>
            /\ stack[p] = "" /\ runCmd[p] = <<>> /\ ~venv[p]
            /\ FilesBelow(fsFiles, cand[p]) = Range(written[p])

\* the second entry of the plan escaped after the first one was written
C11_Witness ==
    \E p \in Procs :
        /\ outcome[p] = "traversal"
        /\ Len(written[p]) = 1
        /\ Outside(p) = {2}
        /\ \A q \in Procs : q > p => pc[q] = "idle"

----------------------------------------------------------------------------
(* C12: every result record returned by apply_plan has a non-empty run_cmd
   (a command or a diagnostic placeholder), for every stack, generic
   included, and every plan run hint, empty or blank included.  (Spec) *)
C12_RunCmdNeverEmpty ==
    \A p \in Procs : pc[p] = "done" => runCmd[p] # <<>>

----------------------------------------------------------------------------
(* C13: after apply_plan on a plan that brings no launcher of its own and
   resolves to a non-empty run command,
   run.sh and run.command have the same content, which changes to the script
   directory and runs the resolved run command, and run.bat runs the Windows
   equivalent of that same command (the same words, a python interpreter
   replaced by `python`).  (Spec) *)
LauncherNames == {"run.sh", "run.command", "run.bat"}

BringsLauncher(p) ==
    \E i \in DOMAIN written[p] : \E n \in LauncherNames : written[p][i] = Sub(cand[p], n)

WinEquivalent(cmd) ==
    IF cmd # <<>> /\ (Head(cmd) = VenvPy \/ StartsWithPython(Head(cmd)))
    THEN <<"python">> \o Tail(cmd)
    ELSE cmd

C13_LaunchersRunResolvedCmd ==
    \A p \in Procs :
        (pc[p] \in {"launched", "done"} /\ ~BringsLauncher(p) /\ runCmd[p] # <<>>) =>
            /\ FileText(Fs, Sub(cand[p], "run.sh")) = ShLauncher(runCmd[p])
            /\ FileText(Fs, Sub(cand[p], "run.command")) = ShLauncher(runCmd[p])
            /\ FileText(Fs, Sub(cand[p], "run.bat")) = BatLauncher(WinEquivalent(runCmd[p]))

----------------------------------------------------------------------------
(* C14: attach_launchers never modifies an existing launcher: in every step,
   each of run.sh, run.command and run.bat that is a file before the step
   has the same content after it, whoever wrote it (an earlier call or the
   plan's own files) and however many calls follow.  (SpecLaunch) *)
LaunchersKept ==
    \A p \in Procs : \A n \in LauncherNames :
        LET path == Sub(cand[p], n) IN
        (pc[p] # "idle" /\ path \in DOMAIN fsFiles)
            => (path \in DOMAIN fsFiles' /\ fsFiles'[path] = fsFiles[path])

C14_LaunchersNeverOverwritten == [][LaunchersKept]_vars

\* run.sh came with the plan and is as the plan wrote it, run.command was
\* written by an earlier call than the last one, which had another command
C14_Witness ==
    \E p \in Procs :
        /\ pc[p] = "launched"
        /\ FileText(Fs, Sub(cand[p], "run.sh")) = Plain
        /\ \E c \in LaunchCmds :
              /\ c # <<>>
              /\ FileText(Fs, Sub(cand[p], "run.command")) = ShLauncher(Strip(c))
              /\ runCmd[p] # <<>> /\ Strip(runCmd[p]) # Strip(c)

----------------------------------------------------------------------------
(* C15: the final run command follows the plan's run hint whenever the hint
   is non-empty: it is the hint without its surrounding blanks, or, when the
   stack is python, apply_plan holds a venv and the first word of the hint
   starts with "python", the hint with that word replaced by the venv's
   interpreter.  The hint of the install step (poetry run, pdm run) and the
   builders are used only when the plan's hint is empty, and the python
   default heuristic only when the install step gave no hint either.
   (Spec) *)
Resolved(p) == pc[p] \in {"resolved", "launched", "done"}

\* the words of a hint that start with "python"
PythonWords == {"python", "python3"}

FromPlanHint(p) ==
    LET parts == Split(Strip(plan[p].run)) IN
    IF stack[p] = "python" /\ venv[p] /\ parts # <<>> /\ parts[1] \in PythonWords
    THEN Join(<<VenvPy>> \o Tail(parts))
    ELSE Strip(plan[p].run)

BuilderCalled(p) == \E i \in DOMAIN trace[p] : trace[p][i] \in Builders

C15_RunCmdPrecedence ==
    \A p \in Procs :
        Resolved(p) =>
            /\ plan[p].run # <<>> => (runCmd[p] = FromPlanHint(p) /\ ~BuilderCalled(p))
            /\ (plan[p].run = <<>> /\ hint[p] # <<>>) => runCmd[p] = hint[p]
            /\ (runCmd[p] # <<>> /\ Head(runCmd[p]) = VenvPy /\ Len(runCmd[p]) > 1
                    /\ runCmd[p] # FromPlanHint(p))
                  => (plan[p].run = <<>> /\ hint[p] = <<>>)
            /\ BuilderCalled(p) => plan[p].run = <<>>

\* a python plan with the hint " python main.py" and a venv, resolved to the
\* venv's interpreter
C15_Witness ==
    \E p \in Procs :
        /\ pc[p] = "done" /\ stack[p] = "python" /\ venv[p]
        /\ plan[p].run = <<" ", "python", " ", "main.py">>
        /\ runCmd[p] = <<VenvPy, " ", "main.py">>

----------------------------------------------------------------------------
(* C16: _detect_stack returns the tag of the first rule that matches, in the
   order python, node, go, rust, java-gradle, java-maven, java-plain, cpp,
   and generic when no rule matches; a file list that matches several rules
   gets the tag of the earliest.  (SpecDetect) *)
Rule(tag, names, exts) == [tag |-> tag, names |-> names, exts |-> exts]

\* the rules in their order: the file names and the endings each looks for
DetectRules ==
    << Rule("python", {"pyproject.toml", "requirements.txt"}, {".py"}),
       Rule("node", {"package.json"}, {".js", ".ts", ".tsx"}),
       Rule("go", {"go.mod"}, {".go"}),
       Rule("rust", {"cargo.toml"}, {}),
       Rule("java-gradle", {"build.gradle", "settings.gradle", "gradlew", "gradlew.bat"}, {}),
       Rule("java-maven", {"pom.xml"}, {}),
       Rule("java-plain", {}, {".java"}),
       Rule("cpp", {"cmakelists.txt"}, {".cpp", ".hpp", ".cc", ".cxx"}) >>

Matches(rule, files) ==
    \E i \in DOMAIN files :
        LET n == LowerName(files[i].filename) IN
        (\E x \in rule.names : n = Named(x)) \/ EndsWithAny(n, rule.exts)

Matching(files) == {k \in DOMAIN DetectRules : Matches(DetectRules[k], files)}

FirstMatch(files) ==
    IF Matching(files) = {} THEN "generic" ELSE DetectRules[Min(Matching(files))].tag

C16_FirstMatchingRuleWins ==
    \A p \in Procs : pc[p] = "detected" => stack[p] = FirstMatch(plan[p].files)

\* a list that matches the node rule first and the python rule second in
\* file order, detected as python
C16_Witness ==
    /\ pc[1] = "detected"
    /\ plan[1].files = <<F("package.json", Plain), F("main.py", Plain)>>
    /\ Matching(plan[1].files) = {1, 2}
    /\ stack[1] = "python"

----------------------------------------------------------------------------
(* C17: _detect_stack does not depend on the order of the file list: any
   permutation of a list, and any permutation of the list with one of its
   files added a second time, gets the same tag as the list.  (SpecDetect) *)
C17_DetectOrderIndependent ==
    (pc[1] = "detected" /\ pc[2] = "detected") => stack[2] = stack[1]

\* two files of different rules, detected again in the other order with a
\* duplicate
C17_Witness ==
    /\ pc[2] = "detected"
    /\ plan[1].files = <<F("pom.xml", Plain), F("main.go", Plain)>>
    /\ plan[2].files = <<F("main.go", Plain), F("pom.xml", Plain), F("main.go", Plain)>>
    /\ stack[2] = "go"

----------------------------------------------------------------------------
(* C18: whenever the run hint of a decoded plan is empty (the key absent or
   its value the empty string), normalization infers it from the file names:
   a plan is never returned with an empty run hint while its file names
   give one (a launcher, a package with __main__.py, main.py or app.py,
   package.json).  (SpecNorm) *)
C18_EmptyRunIsInferred ==
    (normOutcome = "returned" /\ parsed.run = StrV(<<>>))
        => _guess_run(parsed.files) = <<>>

----------------------------------------------------------------------------
(* C19: every plan returned by normalization has a name that is a non-empty
   string; a missing, null or empty name has become "Generated Project".
   (SpecNorm) *)
C19_NameNeverEmpty ==
    normOutcome = "returned" => (parsed.name.t = "str" /\ parsed.name.s # <<>>)

----------------------------------------------------------------------------
(* C20: normalization writes the diagnostic file only when every extracted
   candidate and the whole raw text failed to decode and a path was given,
   and the file then holds the raw text, atom for atom; in every other case
   no file is written.  (SpecNorm) *)
TotalFailure ==
    /\ ~FirstDecoded(_extract_json_candidates(raw)).ok
    /\ ~_json_load_lenient(raw).ok

C20_BadReplyOnlyOnTotalFailure ==
    /\ normOutcome = "none" => badReplyFile = <<>>
    /\ badReplyFile # <<>> =>
          /\ bad_reply_path
          /\ TotalFailure
          /\ badReplyFile = <<raw>>

\* a reply with a candidate in it; the candidate and the whole text failed
\* to decode, and the reply is in the diagnostic file
C20_Witness ==
    /\ normOutcome = "returned"
    /\ _extract_json_candidates(raw) # <<>>
    /\ TotalFailure
    /\ bad_reply_path
    /\ badReplyFile = <<raw>>

----------------------------------------------------------------------------
(* C21: in _install_python, when pyproject.toml declares Poetry and the
   poetry CLI is there, or declares PDM and the pdm CLI is there, the tool's
   install is run and nothing else of the python strategy: no pip upgrade,
   no requirements install, no post_install command, and the hint returned
   is "poetry run ..." or "pdm run ..."; Poetry is looked for before PDM.
   (Spec) *)
Declares(p, section) ==
    Contains(FileText(Fs, Sub(cand[p], "pyproject.toml")), section)

ManualInstall(p) ==
    {"pip install --upgrade pip", "pip install -r"} \cup Range(PostCmds(plan[p].post_install))

Wrapper(p, tool) ==
    <<tool, " ", "run", " ">> \o (IF plan[p].run # <<>> THEN plan[p].run ELSE PyDefault)

\* what the install step ran is only the tool, and its hint is the wrapper
DelegatedTo(p, tool, ev, h) ==
    /\ ev \cap ManualInstall(p) = {}
    /\ ev \cap {"poetry install", "pdm install"} = {tool \o " install"}
    /\ h = Wrapper(p, tool)

C21_ToolShortCircuits ==
    \A p \in Procs :
        /\ "poetry install" \in Range(trace[p])
              => DelegatedTo(p, "poetry", Range(trace[p]), hint[p])
        /\ "pdm install" \in Range(trace[p])
              => DelegatedTo(p, "pdm", Range(trace[p]), hint[p])
        /\ (pc[p] = "detected" /\ stack[p] = "python") =>
              \A env \in InstallEnvs :
                  LET r == _install_python(Fs, cand[p], plan[p], env) IN
                  ("python -m venv" \in Range(r.ev) => r.err = "none") =>
                      /\ (Declares(p, "[tool.poetry]") /\ env.poetryCli)
                            => (DelegatedTo(p, "poetry", Range(r.ev), r.hint)
                                /\ r.err = "none")
                      /\ (~(Declares(p, "[tool.poetry]") /\ env.poetryCli)
                            /\ Declares(p, "[tool.pdm]") /\ env.pdmCli)
                            => (DelegatedTo(p, "pdm", Range(r.ev), r.hint)
                                /\ r.err = "none")

\* a project that declares both tools and has a requirements file and
\* post_install commands, installed by Poetry alone
C21_Witness ==
    \E p \in Procs :
        /\ pc[p] = "done"
        /\ Declares(p, "[tool.poetry]") /\ Declares(p, "[tool.pdm]")
        /\ Exists(Fs, Sub(cand[p], "requirements.txt"))
        /\ PostCmds(plan[p].post_install) # <<>>
        /\ "poetry install" \in Range(trace[p])
        /\ runCmd[p] = <<"poetry", " ", "run", " ">> \o PyDefault

----------------------------------------------------------------------------
(* C22: hook fires the callbacks of an event in ascending priority order,
   whatever the order of the add_hook calls was; callbacks of equal priority
   fire in the order they were registered.  (SpecHooks) *)
HookCalled == lastCall.op = "hook"

C22_FiredInPriorityOrder ==
    HookCalled =>
        \A i, j \in DOMAIN fired :
            i < j => \/ fired[i].priority < fired[j].priority
                     \/ /\ fired[i].priority = fired[j].priority
                        /\ fired[i].reg < fired[j].reg

\* registered with priorities 100, 50, 100 in that order, fired second,
\* first, third
C22_Witness ==
    /\ HookCalled
    /\ Len(fired) = 3
    /\ [i \in 1..3 |-> fired[i].reg] = <<2, 1, 3>>
    /\ [i \in 1..3 |-> fired[i].priority] = <<50, DefaultPriority, DefaultPriority>>

----------------------------------------------------------------------------
(* C23: a callback that raises an Exception inside hook does not stop the
   dispatch: every callback registered for the event has run when hook
   returns, those after the raising one too, and the raising callback gives
   no result.  (SpecHooks) *)
ListOf(event) == IF event \in DOMAIN _hooks THEN _hooks[event] ELSE <<>>

C23_RaisingCallbackIsSkipped ==
    HookCalled =>
        /\ fired = ListOf(lastCall.a)
        /\ hookResult # "raise"
        /\ hookResult # "None" =>
              \E i \in DOMAIN fired : CallOf(fired[i].callback) = hookResult

\* the first callback raised and the one after it gave the result
C23_Witness ==
    /\ HookCalled
    /\ Len(fired) >= 2
    /\ fired[1].callback = "raises"
    /\ fired[2].callback = "ret_a"
    /\ hookResult = "a"

----------------------------------------------------------------------------
(* C24: hook returns the value of the last callback, in firing order, that
   returned a value other than None, and None when the event has no
   callback or none of them returned a value.  (SpecHooks) *)
Returned(t) == CallOf(t.callback) \notin {"None", "raise"}

C24_LastValueReturned ==
    HookCalled =>
        LET vals == SelectSeq(fired, Returned) IN
        hookResult = IF vals = <<>> THEN "None" ELSE CallOf(Last(vals).callback)

\* a value, another value, then None: the second value is returned
C24_Witness ==
    /\ HookCalled
    /\ [i \in DOMAIN fired |-> fired[i].callback] = <<"ret_a", "ret_b", "ret_none">>
    /\ hookResult = "b"

----------------------------------------------------------------------------
(* C25: after any sequence of register_plugin calls the registry has at most
   one entry per name, and a call never changes or removes an entry that is
   there: the entry of a name is the one of its first registration.
   (SpecPlugins) *)
OnePerName ==
    /\ \A i, j \in DOMAIN _plugins : _plugins[i].name = _plugins[j].name => i = j
    /\ {_plugins[i].name : i \in DOMAIN _plugins} = _loaded_names

EntriesKept ==
    \A i \in DOMAIN _plugins : i \in DOMAIN _plugins' /\ _plugins'[i] = _plugins[i]

C25_FirstRegistrationKept == []OnePerName /\ [][EntriesKept]_vars

\* "dup" registered as "first", then again as "second"
C25_Witness ==
    /\ lastCall = MethodCall("register_plugin", "dup", "second", 0)
    /\ \E i \in DOMAIN _plugins : _plugins[i] = [name |-> "dup", description |-> "first"]

----------------------------------------------------------------------------
(* C26: the project directory of an apply_plan call is <root>/<slug> when
   that path is free and else <root>/<slug>-N for the smallest N >= 2 whose
   path is free, and a directory that exists is never reused: the mkdir of
   the call creates a directory that was not there.  (SpecConc) *)
Candidate(p, n) ==
    IF n = 1 THEN InBase(slug[p]) ELSE InBase(slug[p] \o <<"-", Digit(n)>>)

SmallestFreeChosen ==
    \A p \in Procs :
        Allocated(p) =>
            \E n \in 1..(NumApplies + 1) :
                /\ cand[p] = Candidate(p, n)
                /\ \A k \in 1..(n - 1) : Exists(Fs, Candidate(p, k))

MkdirOnFreePath ==
    \A p \in Procs :
        (pc[p] = "mkdir" /\ pc'[p] = "allocated") => ~Exists(Fs, cand[p])

C26_FreeDirectoryChosen == []SmallestFreeChosen /\ [][MkdirOnFreePath]_vars

----------------------------------------------------------------------------
(* C27: normalization tries, in this order, the fenced blocks as they appear
   or, only when the reply has no fenced block, the first {...} span and
   then the first [...] span, and after them the whole reply; the plan
   returned is the one of the first of these that decodes as JSON, whatever
   the later ones hold, and the reply wrapped as a script when none decodes.
   (SpecNorm) *)
Attempts ==
    (IF FenceGroups(raw, 1) # <<>> THEN FenceGroups(raw, 1)
     ELSE _FIRST_OBJ(raw) \o _FIRST_ARRAY(raw)) \o <<raw>>

Decoding == {i \in DOMAIN Attempts : _json_load_lenient(Attempts[i]).ok}

PlanOf(txt) == _normalize_plan(_json_load_lenient(txt).v)

C27_FirstDecodingCandidateWins ==
    normOutcome = "returned" =>
        parsed = IF Decoding = {} THEN _normalize_plan(StrV(raw))
                 ELSE PlanOf(Attempts[Min(Decoding)])

\* two fenced blocks that both decode, to different plans: the plan is the
\* one of the first block
C27_Witness ==
    /\ normOutcome = "returned"
    /\ Len(FenceGroups(raw, 1)) = 2
    /\ Decoding = {1, 2}
    /\ PlanOf(Attempts[1]) # PlanOf(Attempts[2])
    /\ parsed = PlanOf(Attempts[1])

----------------------------------------------------------------------------
(* C28: the absolute variant of a run command has at most one token
   rewritten: the first token after the program name that is no flag and
   looks like a file path is replaced by an absolute path; when -m or -c
   comes before such a token the command is returned as it is; no other
   token is altered.  As claimed, the absolute path is under the project
   directory; as amended, it is the token resolved against the project
   directory, which is under it only when the token is relative and does
   not climb above it.  (SpecAbs) *)
Words == Split(absCmd)

FileWords == {i \in 2..Len(Words) : ~IsFlag(Words[i]) /\ FileLike(Words[i])}
ModuleWords == {i \in 2..Len(Words) : Words[i] \in {"-m", "-c"}}

\* the token to rewrite: the first file word, when no -m or -c is before it
Target ==
    IF FileWords = {} \/ \E m \in ModuleWords : m < Min(FileWords)
    THEN 0 ELSE Min(FileWords)

OneTokenRewritten ==
    absOutcome = "returned" =>
        /\ absSame = (Words = <<>> \/ \E m \in ModuleWords : \A f \in FileWords : m < f)
        /\ DOMAIN absParts = DOMAIN Words
        /\ \A i \in DOMAIN absParts :
              /\ absParts[i].tok = Words[i]
              /\ (absParts[i].path # <<>>) = (i = Target)

C28_RewrittenUnderProjectDir ==
    /\ OneTokenRewritten
    /\ absOutcome = "returned" =>
          \A i \in DOMAIN absParts :
              absParts[i].path # <<>> => IsProperPrefix(ProjectDir, absParts[i].path)

C28_RewrittenResolvedFromProjectDir ==
    /\ OneTokenRewritten
    /\ absOutcome = "returned" =>
          \A i \in DOMAIN absParts :
              absParts[i].path # <<>> =>
                  /\ absParts[i].path = Resolve(JoinPath(ProjectDir, PathOf(Words[i])))
                  /\ (~PathOf(Words[i]).abs /\ DotDot \notin Range(PathOf(Words[i]).comps))
                        => IsProperPrefix(ProjectDir, absParts[i].path)

\* "python main.py src/app": the second word is rewritten, the third, a
\* path too, is not
C28_Witness ==
    /\ absOutcome = "returned"
    /\ Words = <<"python", "main.py", "src/app">>
    /\ absParts[2].path = Append(ProjectDir, C("main.py"))
    /\ absParts[3].path = <<>>
    /\ ~absSame

----------------------------------------------------------------------------
(* C29: in every apply_plan call that returns, each str entry of
   plan["post_install"] has been run at most once, the entries run are in
   the order of the plan, no entry that is not a str is run, and every one
   of them was run after the files were written and before the final run
   command was resolved and the launchers written.  (Spec) *)
PostEntries(p) == {plan[p].post_install[i].cmd : i \in DOMAIN plan[p].post_install}

\* the post_install commands in the trace, in the order they were run
PostRun(p) == SelectSeq(trace[p], LAMBDA e : e \in PostEntries(p))

\* the str entries of the plan, in plan order
StrEntries(p) ==
    LET strs == SelectSeq(plan[p].post_install, LAMBDA e : e.isStr)
    IN  [i \in DOMAIN strs |-> strs[i].cmd]

IndexOf(tr, e) == Min({i \in DOMAIN tr : tr[i] = e})

C29_PostInstallOnceInOrder ==
    \A p \in Procs :
        pc[p] = "done" =>
            /\ PostRun(p) \in {<<>>, StrEntries(p)}
            /\ \A i \in DOMAIN trace[p] :
                  trace[p][i] \in PostEntries(p) =>
                      /\ IndexOf(trace[p], "FILES_WRITTEN") < i
                      /\ i < IndexOf(trace[p], "_final_run_cmd")
                      /\ i < IndexOf(trace[p], "RUN_CMD_RESOLVED")
                      /\ i < IndexOf(trace[p], "LAUNCHERS_WRITTEN")

\* a node plan with two str entries and one that is no str: the two were
\* run, in plan order
C29_Witness ==
    \E p \in Procs :
        /\ pc[p] = "done"
        /\ stack[p] = "node"
        /\ Len(plan[p].post_install) = 3
        /\ PostRun(p) = <<"post:1", "post:2">>

----------------------------------------------------------------------------
(* C30: a get_plan invocation calls the LLM at most max_retries times; a
   call is made only after calls that all failed, so nothing follows a call
   that gave a reply, and the plan returned is the one parsed from that
   reply; once max_retries calls have failed (none when max_retries is 0)
   get_plan raises RuntimeError; when the cache lookup finds a plan, that
   plan is returned and no call is made.  (SpecLlm) *)
AllButLastFailed == \A i \in 1..(Len(llmCalls) - 1) : ~llmCalls[i].ok

AllFailed == \A i \in DOMAIN llmCalls : ~llmCalls[i].ok

CacheHit == caching_enabled /\ cached # NoParsed

C30_CallsBoundedByMaxRetries ==
    /\ Len(llmCalls) <= max_retries
    /\ AllButLastFailed
    /\ getPc = "loop" => AllFailed /\ ~CacheHit
    /\ (getPc = "returned" /\ ~CacheHit) =>
          /\ llmCalls # <<>>
          /\ Last(llmCalls).ok
          /\ getReturned = _parse_any_plan(Last(llmCalls).reply, FALSE, FALSE).plan
    /\ (getPc = "raised" /\ getRaised = "RuntimeError") =>
          AllFailed /\ Len(llmCalls) = max_retries
    /\ (getPc # "idle" /\ AllFailed /\ Len(llmCalls) = max_retries /\ max_retries > 0) =>
          getPc = "raised" \/ CacheHit
    /\ (getPc = "raised" /\ getRaised # "RuntimeError") =>
          getRaised = "ValueError" /\ Strip(user_prompt) = <<>> /\ llmCalls = <<>>
    /\ CacheHit => getPc = "returned" /\ llmCalls = <<>> /\ getReturned = cached

\* the second of two calls allowed gave a reply after the first had failed
C30_Witness ==
    /\ getPc = "returned"
    /\ max_retries = 2
    /\ Len(llmCalls) = 2
    /\ ~llmCalls[1].ok
    /\ llmCalls[2].ok

====
